---- MODULE Spec2Model ----
(***************************************************************************)
(* A model of the VAST wrapper-chain resolver (unwrap.rs) and the wrapper  *)
(* tracking collector / stitcher (stitcher.rs).                            *)
(*                                                                         *)
(* A document text is abstracted to what parse_vast makes of it; the       *)
(* content source is a function from URIs to fetch outcomes, fixed for a   *)
(* behaviour.  The blocking functions run on an explicit call stack, the   *)
(* suspending ones on their own queue, one step per loop iteration or      *)
(* await point.                                                            *)
(***************************************************************************)
EXTENDS Integers, Sequences, FiniteSets, TLC

VARIABLES root, content, alt, callIx, results, blk, tasks

vars == <<root, content, alt, callIx, results, blk, tasks>>

(***************************************************************************)
(* Bounds of the model and constants of the program                        *)
(***************************************************************************)
\* unwrap.rs:11
MAX_WRAPPER_DEPTH == 10

\* the longest wrapper chain among the inputs (number of URIs in use)
MaxChain == 11

\* the largest number of Ads in all the documents of a small redirect graph
MaxAds == 3

URIs == 1..MaxChain

\* the URIs the small redirect graphs are built over
GraphURIs == {1, 2}

Versions == {"2.0", "3.0"}

(***************************************************************************)
(* Option<T> is a sequence of length at most one                           *)
(***************************************************************************)
None == <<>>

Some(x) == <<x>>

IsSome(o) == Len(o) > 0

Unwrap(o) == o[1]

(***************************************************************************)
(* A document text is the sequence of its markup: start tags with their    *)
(* attributes, end tags, self-closing tags, character data, CDATA sections *)
(* and the XML declaration.  quick-xml's Reader yields one Event for each; *)
(* the end of the sequence is Event::Eof.  attrs is the sequence of        *)
(* <<key, raw value>> pairs of a tag, text the raw characters.             *)
(***************************************************************************)
Event(kind, name, attrs, text) ==
    [kind |-> kind, name |-> name, attrs |-> attrs, text |-> text]

StartTag(name, attrs) == Event("Start", name, attrs, <<>>)

EndTag(name) == Event("End", name, <<>>, <<>>)

EmptyTag(name, attrs) == Event("Empty", name, attrs, <<>>)

Characters(text) == Event("Text", "", <<>>, text)

CDataSection(text) == Event("CData", "", <<>>, text)

Declaration == Event("Decl", "", <<>>, <<>>)

(***************************************************************************)
(* models.rs: Ad, InLine, Wrapper, Vast                                    *)
(***************************************************************************)
\* models.rs:177-201
MediaFile(url, width, height, bitrate) ==
    [url |-> url, width |-> width, height |-> height, bitrate |-> bitrate]

\* models.rs:218-224
TrackingEvent(event, url) == [event |-> event, url |-> url]

\* models.rs:205-214
VideoClicks(click_through, click_tracking, custom_click) ==
    [click_through |-> click_through, click_tracking |-> click_tracking,
     custom_click |-> custom_click]

\* models.rs:161-173
Linear(tracking_events, video_clicks) ==
    [tracking_events |-> tracking_events, video_clicks |-> video_clicks,
     media_files |-> <<>>]

\* models.rs:136-157
Creative(linear) ==
    [sequence |-> None, linear |-> linear, companion_ads |-> None,
     non_linear_ads |-> None]

\* models.rs:37-67: an InLine with an empty title, without Error and Creatives
InLine(imps) ==
    [ad_title |-> <<>>, impressions |-> imps, error |-> None, creatives |-> <<>>]

\* models.rs:71-90: a Wrapper without Error and Creatives
Wrapper(uri, imps) ==
    [vast_ad_tag_uri |-> uri, impressions |-> imps, error |-> None, creatives |-> <<>>]

\* models.rs:18-33
Ad(id, inl, wr) == [id |-> Some(id), sequence |-> None, inline |-> inl, wrapper |-> wr]

Vast(version, ads, error) == [version |-> version, ads |-> ads, error |-> error]

\* Result<T>
Ok(v) == [ok |-> TRUE, val |-> v]

Err(e) == [ok |-> FALSE, val |-> e]

(***************************************************************************)
(* Document texts.  A text either has a VAST root start tag or not, the    *)
(* root carries a version attribute (possibly empty), the markup is        *)
(* well-formed or not, and the root holds a list of Ads.                   *)
(***************************************************************************)
Text(hasRoot, version, wellformed, ads) ==
    [root |-> hasRoot, version |-> version, wellformed |-> wellformed, ads |-> ads]

\* the Ads are parsed before the version is looked at
parse_vast_AdsFirst(xml) ==
    IF ~xml.wellformed THEN Err("XmlParseError")
    ELSE IF ~xml.root THEN Ok(Vast("", <<>>, None))
    ELSE IF xml.version = "" THEN Err("MissingField")
    ELSE Ok(Vast(xml.version, xml.ads, None))

\* parser.rs parse_vast, seen from its callers: Eof before any VAST start tag
\* leaves the default Vast (version "", no ads) and returns Ok; an empty
\* version is MissingField; a markup error or a premature end is an Err.
parse_vast(xml) ==
    IF ~xml.root
    THEN IF xml.wellformed THEN Ok(Vast("", <<>>, None)) ELSE Err("XmlParseError")
    ELSE IF xml.version = "" THEN Err("MissingField")
    ELSE IF ~xml.wellformed THEN Err("XmlParseError")
    ELSE Ok(Vast(xml.version, xml.ads, None))

\* unwrap.rs fetch_vast_content / fetch_vast_content_async: the content source.
\* None is a failed fetch (I/O error, timeout, non-2xx), Some(text) a success.
fetch_vast_content(uri) == content[uri]

(***************************************************************************)
(* The inputs: a root text and a content source                            *)
(***************************************************************************)
\* the Ad at position i of the document at location loc (0 is the root)
AdId(loc, i) == 10 * loc + i

InlineAd(loc, i) == Ad(AdId(loc, i), Some(InLine(<<AdId(loc, i)>>)), None)

WrapperAd(loc, i, uri) == Ad(AdId(loc, i), None, Some(Wrapper(uri, <<AdId(loc, i)>>)))

\* an Ad with neither InLine nor Wrapper
BareAd(loc, i) == Ad(AdId(loc, i), None, None)

\* an Ad with both an InLine and a Wrapper
BothAd(loc, i, uri) ==
    Ad(AdId(loc, i), Some(InLine(<<AdId(loc, i)>>)), Some(Wrapper(uri, <<AdId(loc, i)>>)))

HopKinds == {<<"I", 0>>} \cup {<<"W", u>> : u \in GraphURIs}

\* the first Ad of a root may also hold neither or both of InLine and Wrapper
RootKinds(i) == IF i = 1 THEN HopKinds \cup {<<"N", 0>>, <<"B", 1>>} ELSE HopKinds

MkAd(loc, i, kind) ==
    CASE kind[1] = "I" -> InlineAd(loc, i)
      [] kind[1] = "W" -> WrapperAd(loc, i, kind[2])
      [] kind[1] = "N" -> BareAd(loc, i)
      [] OTHER -> BothAd(loc, i, kind[2])

MkAds(loc, ks) == [i \in 1..Len(ks) |-> MkAd(loc, i, ks[i])]

MalformedText == Text(TRUE, "3.0", FALSE, <<>>)

NoRootText == Text(FALSE, "", TRUE, <<>>)

NoVersionText == Text(TRUE, "", TRUE, <<>>)

\* the root texts with n Ads
GraphRootTexts(n) ==
    {Text(TRUE, "2.0", TRUE, MkAds(0, ks)) :
        ks \in {k \in [1..n -> RootKinds(1)] : \A i \in 1..n : k[i] \in RootKinds(i)}}
        \cup (IF n = 0 THEN {MalformedText, NoRootText, NoVersionText} ELSE {})

\* what a fetch of URI u yields, with n Ads in the document
GraphHopOutcomes(u, n) ==
    {Some(Text(TRUE, "3.0", TRUE, MkAds(u, ks))) : ks \in [1..n -> HopKinds]}
        \cup (IF n = 0 THEN {Some(MalformedText), None} ELSE {})

\* the URIs the wrappers of a text point to
Refs(xml) == {Unwrap(xml.ads[i].wrapper).vast_ad_tag_uri :
                 i \in {j \in 1..Len(xml.ads) : IsSome(xml.ads[j].wrapper)}}

RECURSIVE Reach(_, _, _)
Reach(c, seen, n) ==
    IF n = 0 THEN seen
    ELSE Reach(c, seen \cup UNION {Refs(Unwrap(c[u])) : u \in {v \in seen : IsSome(c[v])}}, n - 1)

\* how many Ads the root and each URI's document hold: at most MaxAds in all
AdCounts ==
    {n \in [{0} \cup GraphURIs -> 0..MaxAds] : n[0] + n[1] + n[2] <= MaxAds}

GraphContent(h1, h2) == [u \in URIs |-> IF u = 1 THEN h1 ELSE IF u = 2 THEN h2 ELSE None]

\* a URI no wrapper can reach fails to fetch
AllReachable(r, c) ==
    \A u \in GraphURIs : IsSome(c[u]) => u \in Reach(c, Refs(r), Cardinality(GraphURIs))

\* wrapper chains W0 -> W1 -> ... -> W(k-1) -> D: W0 is the root, Wi is served
\* at URI i and D at URI k
TailKinds == {"inline1", "inline2", "empty", "noroot", "malformed", "fetchfail",
              "selfcycle", "backcycle"}

TailAds(k, tail) ==
    CASE tail = "inline1" -> <<InlineAd(k, 1)>>
      [] tail = "inline2" -> <<InlineAd(k, 1), InlineAd(k, 2)>>
      [] tail = "selfcycle" -> <<WrapperAd(k, 1, k)>>
      [] tail = "backcycle" -> <<WrapperAd(k, 1, 1)>>
      [] OTHER -> <<>>

ChainDoc(k, i, tail, rv, hv) ==
    LET v == IF i = 0 THEN rv ELSE hv
    IN  IF i < k THEN Some(Text(TRUE, v, TRUE, <<WrapperAd(i, 1, i + 1)>>))
        ELSE IF i > k \/ tail = "fetchfail" THEN None
        ELSE IF tail = "malformed" THEN Some(MalformedText)
        ELSE IF tail = "noroot" THEN Some(NoRootText)
        ELSE Some(Text(TRUE, v, TRUE, TailAds(k, tail)))

ChainParams ==
    {q \in (0..MaxChain) \X TailKinds \X Versions \X Versions :
        q[1] = 0 => q[2] \notin {"fetchfail", "selfcycle", "backcycle"}}

ChainWorld(p) ==
    [root |-> Unwrap(ChainDoc(p[1], 0, p[2], p[3], p[4])),
     content |-> [u \in URIs |-> ChainDoc(p[1], u, p[2], p[3], p[4])]]

\* what a Wrapper or an InLine at location loc carries besides its impressions
Decors == {"bare", "error", "events", "clicks", "linear"}

Decoration(loc, dec) ==
    CASE dec = "error" -> [error |-> Some(100 + loc), creatives |-> <<>>]
      [] dec = "events" ->
            [error |-> None,
             creatives |-> <<Creative(Some(Linear(
                 <<TrackingEvent("start", 7), TrackingEvent("complete", 200 + loc)>>,
                 None)))>>]
      [] dec = "clicks" ->
            [error |-> Some(100 + loc),
             creatives |-> <<Creative(None),
                             Creative(Some(Linear(
                                 <<TrackingEvent("start", 7)>>,
                                 Some(VideoClicks(Some(500 + loc), <<300 + loc>>,
                                                  <<400 + loc>>)))))>>]
      [] dec = "linear" -> [error |-> None, creatives |-> <<Creative(Some(Linear(<<>>, None)))>>]
      [] OTHER -> [error |-> None, creatives |-> <<>>]

\* the first Ad of a text, decorated
DecorateText(xml, loc, dec) ==
    LET d == Decoration(loc, dec)
        f(x) == [x EXCEPT !.error = d.error, !.creatives = d.creatives]
    IN  [xml EXCEPT !.ads[1] =
            [@ EXCEPT !.inline = IF IsSome(@) THEN Some(f(Unwrap(@))) ELSE @,
                      !.wrapper = IF IsSome(@) THEN Some(f(Unwrap(@))) ELSE @]]

\* the chains of k wrappers that end in an InLine, every hop decorated
TrackedWorld(k, ds) ==
    LET w == ChainWorld(<<k, "inline1", "2.0", "3.0">>)
    IN  [root |-> DecorateText(w.root, 0, ds[0]),
         content |-> [u \in URIs |->
                        IF u <= k THEN Some(DecorateText(Unwrap(w.content[u]), u, ds[u]))
                        ELSE None]]

(***************************************************************************)
(* The calls of a behaviour, made one after the other on the same root and *)
(* content source.  alt, when present, is the root without one of its      *)
(* wrapper Ads whose fetch fails.                                          *)
(***************************************************************************)
Call(fn, xml) == [fn |-> fn, xml |-> xml]

Program ==
    <<Call("unwrap_vast", root), Call("unwrap_vast_async", root),
      Call("stitch_vast", root), Call("stitch_vast_async", root)>>
        \o (IF IsSome(alt)
            THEN <<Call("unwrap_vast", Unwrap(alt)), Call("unwrap_vast_async", Unwrap(alt))>>
            ELSE <<>>)

RemoveAt(s, i) == [j \in 1..(Len(s) - 1) |-> IF j < i THEN s[j] ELSE s[j + 1]]

\* the positions of the root's Ads that are followed as wrappers and fail to fetch
FailingWrapperAds(xml, c) ==
    {i \in 1..Len(xml.ads) :
        /\ ~IsSome(xml.ads[i].inline)
        /\ IsSome(xml.ads[i].wrapper)
        /\ ~IsSome(c[Unwrap(xml.ads[i].wrapper).vast_ad_tag_uri])}

AltRoots(w) ==
    IF parse_vast(w.root).ok /\ FailingWrapperAds(w.root, w.content) # {}
    THEN {Some([w.root EXCEPT !.ads = RemoveAt(w.root.ads, i)]) :
             i \in FailingWrapperAds(w.root, w.content)}
    ELSE {None}

(***************************************************************************)
(* stitcher.rs: the tracking bundle, the merge and the serializer          *)
(***************************************************************************)
\* stitcher.rs:37-44 WrapperTracking::default(); tracking_events maps a tag to
\* the URLs recorded under it
EmptyTracking ==
    [impressions |-> <<>>, error_urls |-> <<>>, tracking_events |-> <<>>,
     click_tracking |-> <<>>, custom_click |-> <<>>]

RECURSIVE PushTrackingEvents_KeyedUnion(_, _)
PushTrackingEvents_KeyedUnion(events, map) ==
    IF events = <<>> THEN map
    ELSE LET e == Head(events)
             old == IF e.event \in DOMAIN map THEN map[e.event] ELSE <<>>
         IN  PushTrackingEvents_KeyedUnion(Tail(events),
                 [t \in DOMAIN map \cup {e.event} |->
                     IF t # e.event THEN map[t]
                     ELSE IF \E i \in 1..Len(old) : old[i] = e.url THEN old
                     ELSE Append(old, e.url)])

\* stitcher.rs:155-160: entry(event).or_insert_with(Vec::new).push(url), in turn
RECURSIVE PushTrackingEvents(_, _)
PushTrackingEvents(events, map) ==
    IF events = <<>> THEN map
    ELSE LET e == Head(events)
             old == IF e.event \in DOMAIN map THEN map[e.event] ELSE <<>>
         IN  PushTrackingEvents(Tail(events),
                 [t \in DOMAIN map \cup {e.event} |->
                     IF t = e.event THEN Append(old, e.url) ELSE map[t]])

\* stitcher.rs:152-175: the loop over the wrapper's creatives
RECURSIVE ExtractCreatives(_, _)
ExtractCreatives(creatives, result) ==
    IF creatives = <<>> THEN result
    ELSE IF ~IsSome(Head(creatives).linear) THEN ExtractCreatives(Tail(creatives), result)
    ELSE LET linear == Unwrap(Head(creatives).linear)
             r1 == [result EXCEPT
                       !.tracking_events = PushTrackingEvents(linear.tracking_events, @)]
             r2 == IF IsSome(linear.video_clicks)
                   THEN [r1 EXCEPT
                            !.click_tracking = @ \o Unwrap(linear.video_clicks).click_tracking,
                            !.custom_click = @ \o Unwrap(linear.video_clicks).custom_click]
                   ELSE r1
         IN  ExtractCreatives(Tail(creatives), r2)

extract_wrapper_tracking_NewestFirst(wrapper, result) ==
    ExtractCreatives(wrapper.creatives,
        [result EXCEPT !.impressions = wrapper.impressions \o @,
                       !.error_urls = wrapper.error \o @])

\* stitcher.rs:140-176
extract_wrapper_tracking(wrapper, result) ==
    ExtractCreatives(wrapper.creatives,
        [result EXCEPT !.impressions = @ \o wrapper.impressions,
                       !.error_urls = @ \o wrapper.error])

\* stitcher.rs:199: the orders in which a HashMap may hand out its keys
TagOrders(map) ==
    {o \in [1..Cardinality(DOMAIN map) -> DOMAIN map] :
        \A i, j \in DOMAIN o : o[i] = o[j] => i = j}

RECURSIVE Concat(_)
Concat(ss) == IF ss = <<>> THEN <<>> ELSE Head(ss) \o Concat(Tail(ss))

\* stitcher.rs:199-206: one TrackingEvent per tag and URL of the bundle, the tags
\* in the order the map hands them out
BundleEvents(wt, order) ==
    Concat([k \in 1..Len(order) |->
               [j \in 1..Len(wt.tracking_events[order[k]]) |->
                   TrackingEvent(order[k], wt.tracking_events[order[k]][j])]])

MergeVideoClicks_NeverCreates(video_clicks, wt) ==
    IF IsSome(video_clicks)
    THEN Some([Unwrap(video_clicks) EXCEPT
                  !.click_tracking = @ \o wt.click_tracking,
                  !.custom_click = @ \o wt.custom_click])
    ELSE None

\* stitcher.rs:209-227: the bundle's click URLs are appended to the VideoClicks,
\* or make a new one
MergeVideoClicks(video_clicks, wt) ==
    IF IsSome(video_clicks)
    THEN Some([Unwrap(video_clicks) EXCEPT
                  !.click_tracking = @ \o wt.click_tracking,
                  !.custom_click = @ \o wt.custom_click])
    ELSE IF wt.click_tracking # <<>> \/ wt.custom_click # <<>>
    THEN Some(VideoClicks(None, wt.click_tracking, wt.custom_click))
    ELSE None

\* stitcher.rs:196-229: the merge into one creative
StitchCreative(creative, wt, order) ==
    IF ~IsSome(creative.linear) THEN creative
    ELSE LET linear == Unwrap(creative.linear)
         IN  [creative EXCEPT
                 !.linear = Some([linear EXCEPT
                     !.tracking_events = linear.tracking_events \o BundleEvents(wt, order),
                     !.video_clicks = MergeVideoClicks(linear.video_clicks, wt)])]

MergeError_LastWins(error, wt) ==
    IF wt.error_urls # <<>> THEN Some(wt.error_urls[Len(wt.error_urls)]) ELSE error

\* stitcher.rs:191-194: the first error URL of the bundle, if the InLine has none
MergeError(error, wt) ==
    IF ~IsSome(error) /\ wt.error_urls # <<>> THEN Some(wt.error_urls[1]) ELSE error

StitchAd_BundleFirst(ad, wt, order) ==
    IF IsSome(ad.inline)
    THEN LET inline == Unwrap(ad.inline)
         IN  [ad EXCEPT !.inline = Some(
                 [inline EXCEPT
                     !.impressions = wt.impressions \o inline.impressions,
                     !.error = MergeError(inline.error, wt),
                     !.creatives = [c \in 1..Len(inline.creatives) |->
                                      StitchCreative(inline.creatives[c], wt, order)]])]
    ELSE ad

\* stitcher.rs:185-230: the merge into one Ad
StitchAd(ad, wt, order) ==
    IF IsSome(ad.inline)
    THEN LET inline == Unwrap(ad.inline)
         IN  [ad EXCEPT !.inline = Some(
                 [inline EXCEPT
                     !.impressions = inline.impressions \o wt.impressions,
                     !.error = MergeError(inline.error, wt),
                     !.creatives = [c \in 1..Len(inline.creatives) |->
                                      StitchCreative(inline.creatives[c], wt, order)]])]
    ELSE ad

\* the merged document keeps the Ads with InLine content only
stitch_vast_from_unwrapped_InlineOnly(unwrapped_vast, wt, order) ==
    Ok([unwrapped_vast EXCEPT
           !.ads = [i \in 1..Len(SelectSeq(unwrapped_vast.ads, LAMBDA ad : IsSome(ad.inline))) |->
                       StitchAd(SelectSeq(unwrapped_vast.ads,
                                          LAMBDA ad : IsSome(ad.inline))[i], wt, order)]])

\* stitcher.rs:179-234
stitch_vast_from_unwrapped(unwrapped_vast, wt, order) ==
    Ok([unwrapped_vast EXCEPT
           !.ads = [i \in 1..Len(unwrapped_vast.ads) |->
                       StitchAd(unwrapped_vast.ads[i], wt, order)]])

\* an attribute the serializer writes only when the field is present
AttrIf(key, field) == IF IsSome(field) THEN <<<<key, Unwrap(field)>>>> ELSE <<>>

\* <name attrs>text</name>, the text written as it is; no characters between
\* the tags when the text is empty
TextElement(name, attrs, text) ==
    <<StartTag(name, attrs)>>
        \o (IF text = <<>> THEN <<>> ELSE <<Characters(text)>>)
        \o <<EndTag(name)>>

\* <name attrs><![CDATA[text]]></name>
CDataElement(name, attrs, text) ==
    <<StartTag(name, attrs), CDataSection(text), EndTag(name)>>

\* stitcher.rs:324-330 and 390-396
Impressions_to_xml(imps) ==
    Concat([i \in 1..Len(imps) |-> CDataElement("Impression", <<>>, imps[i])])

\* stitcher.rs:460-538
linear_to_xml(linear) ==
    <<StartTag("Linear", <<>>)>>
        \o (IF linear.tracking_events # <<>>
            THEN <<StartTag("TrackingEvents", <<>>)>>
                     \o Concat([i \in 1..Len(linear.tracking_events) |->
                            CDataElement("Tracking",
                                <<<<"event", linear.tracking_events[i].event>>>>,
                                linear.tracking_events[i].url)])
                     \o <<EndTag("TrackingEvents")>>
            ELSE <<>>)
        \o (IF IsSome(linear.video_clicks)
            THEN LET vc == Unwrap(linear.video_clicks)
                 IN  <<StartTag("VideoClicks", <<>>)>>
                         \o (IF IsSome(vc.click_through)
                             THEN CDataElement("ClickThrough", <<>>, Unwrap(vc.click_through))
                             ELSE <<>>)
                         \o Concat([i \in 1..Len(vc.click_tracking) |->
                                CDataElement("ClickTracking", <<>>, vc.click_tracking[i])])
                         \o Concat([i \in 1..Len(vc.custom_click) |->
                                CDataElement("CustomClick", <<>>, vc.custom_click[i])])
                         \o <<EndTag("VideoClicks")>>
            ELSE <<>>)
        \o (IF linear.media_files # <<>>
            THEN <<StartTag("MediaFiles", <<>>)>>
                     \o Concat([i \in 1..Len(linear.media_files) |->
                            LET media_file == linear.media_files[i]
                            IN  CDataElement("MediaFile",
                                    AttrIf("width", media_file.width)
                                        \o AttrIf("height", media_file.height)
                                        \o AttrIf("bitrate", media_file.bitrate),
                                    media_file.url)])
                     \o <<EndTag("MediaFiles")>>
            ELSE <<>>)
        \o <<EndTag("Linear")>>

\* stitcher.rs:419-457; the CompanionAds and NonLinearAds the parser
\* produces are empty (541-589, 592-657)
creative_to_xml(creative) ==
    <<StartTag("Creative", AttrIf("sequence", creative.sequence))>>
        \o (IF IsSome(creative.linear) THEN linear_to_xml(Unwrap(creative.linear)) ELSE <<>>)
        \o (IF IsSome(creative.companion_ads)
            THEN <<StartTag("CompanionAds", <<>>), EndTag("CompanionAds")>> ELSE <<>>)
        \o (IF IsSome(creative.non_linear_ads)
            THEN <<StartTag("NonLinearAds", <<>>), EndTag("NonLinearAds")>> ELSE <<>>)
        \o <<EndTag("Creative")>>

\* the Error and Creatives elements of an InLine (stitcher.rs:332-335,
\* 356-364) and of a Wrapper (398-401, 403-410)
Error_Creatives_to_xml(x) ==
    (IF IsSome(x.error) THEN CDataElement("Error", <<>>, Unwrap(x.error)) ELSE <<>>)
        \o (IF x.creatives # <<>>
            THEN <<StartTag("Creatives", <<>>)>>
                     \o Concat([i \in 1..Len(x.creatives) |-> creative_to_xml(x.creatives[i])])
                     \o <<EndTag("Creatives")>>
            ELSE <<>>)

\* the impressions are written before the title
inline_to_xml_ImpressionsFirst(inline) ==
    <<StartTag("InLine", <<>>)>>
        \o Impressions_to_xml(inline.impressions)
        \o TextElement("AdTitle", <<>>, inline.ad_title)
        \o Error_Creatives_to_xml(inline) \o <<EndTag("InLine")>>

\* stitcher.rs:293-370: the title is written as it is, between the tags
inline_to_xml(inline) ==
    <<StartTag("InLine", <<>>)>>
        \o TextElement("AdTitle", <<>>, inline.ad_title)
        \o Impressions_to_xml(inline.impressions)
        \o Error_Creatives_to_xml(inline) \o <<EndTag("InLine")>>

\* stitcher.rs:373-416
wrapper_to_xml(wrapper) ==
    <<StartTag("Wrapper", <<>>)>>
        \o CDataElement("VASTAdTagURI", <<>>, wrapper.vast_ad_tag_uri)
        \o Impressions_to_xml(wrapper.impressions)
        \o Error_Creatives_to_xml(wrapper) \o <<EndTag("Wrapper")>>

\* stitcher.rs:263-290
ad_to_xml(ad) ==
    <<StartTag("Ad", AttrIf("id", ad.id) \o AttrIf("sequence", ad.sequence))>>
        \o (IF IsSome(ad.inline) THEN inline_to_xml(Unwrap(ad.inline))
            ELSE IF IsSome(ad.wrapper) THEN wrapper_to_xml(Unwrap(ad.wrapper))
            ELSE <<>>)
        \o <<EndTag("Ad")>>

\* stitcher.rs:237-260
vast_to_xml(vast) ==
    Ok(<<Declaration, StartTag("VAST", <<<<"version", vast.version>>>>)>>
           \o (IF IsSome(vast.error) THEN CDataElement("Error", <<>>, Unwrap(vast.error))
               ELSE <<>>)
           \o Concat([i \in 1..Len(vast.ads) |-> ad_to_xml(vast.ads[i])])
           \o <<EndTag("VAST")>>)

\* stitcher.rs:12-18 and 27-33: what stitch makes of the unwrapped document
StitchReturnValue(unwrapped, wt, order) ==
    IF ~unwrapped.ok THEN unwrapped
    ELSE IF ~stitch_vast_from_unwrapped(unwrapped.val, wt, order).ok
    THEN stitch_vast_from_unwrapped(unwrapped.val, wt, order)
    ELSE vast_to_xml(stitch_vast_from_unwrapped(unwrapped.val, wt, order).val)

(***************************************************************************)
(* The blocking thread: the locals of the blocking call in progress        *)
(***************************************************************************)
IdleBlk ==
    [pc |-> "idle", caller |-> "none", xml |-> NoRootText, depth |-> 0, stack |-> <<>>,
     visited_urls |-> {}, visited_vec |-> <<>>, result |-> EmptyTracking,
     wrapper_tracking |-> EmptyTracking, ret |-> None, fetched |-> <<>>, parsed |-> <<>>,
     parsed_at |-> <<>>, hops |-> <<>>, unwrapped |-> None, stitched |-> None]

\* unwrap.rs:22-24 unwrap_vast: depth 0 and a fresh visited set
BeginUnwrapVast(xml, caller) ==
    [IdleBlk EXCEPT !.pc = "unwrap_enter", !.caller = caller, !.xml = xml]

\* a stack frame of unwrap_vast_with_depth: the parsed document, the position in
\* its ads, and the locals result_ads and found_inline
UnwrapFrame(vast, depth) ==
    [vast |-> vast, i |-> 1, result_ads |-> <<>>, found_inline |-> FALSE, depth |-> depth]

\* Vec::contains (stitcher.rs:74, 115)
InSeq(x, seq) == \E i \in 1..Len(seq) : seq[i] = x

\* the cycle check always answers "not seen"
Visited_Never(uri, visited_urls) == FALSE

\* HashSet::contains (unwrap.rs:77, 173)
Visited(uri, visited_urls) == uri \in visited_urls

\* VecDeque::pop_front (unwrap.rs:45, stitcher.rs:63): the queue without its front
PopFront(queue) == Tail(queue)

Top(stack) == stack[Len(stack)]

Pop(stack) == SubSeq(stack, 1, Len(stack) - 1)

SetTop(stack, f) == [stack EXCEPT ![Len(stack)] = f]

\* unwrap.rs:135-139
MaxDepthVast == Vast("4.0", <<>>, Some("Maximum wrapper depth exceeded"))

\* unwrap.rs:148-152
ParseFailedVast == Vast("4.0", <<>>, Some("Failed to parse VAST XML"))

\* unwrap.rs:123-127
NoValidVast == Vast("4.0", <<>>, Some("No valid VAST documents found in the chain"))

\* the depth check one too strict: documents at depth MAX_WRAPPER_DEPTH - 1 are dropped
DepthExceeded_OffByOne(depth) == depth >= MAX_WRAPPER_DEPTH - 1

\* the depth check one too lax (> for >=): a document at depth MAX_WRAPPER_DEPTH is parsed
DepthExceeded_TooLate(depth) == depth > MAX_WRAPPER_DEPTH

\* unwrap.rs:133 and unwrap.rs:47
DepthExceeded(depth) == depth >= MAX_WRAPPER_DEPTH

\* unwrap.rs:211-222: the value a frame returns when its loop is over
UnwrapReturnValue(f) ==
    IF f.found_inline
    THEN Ok(Vast(f.vast.version, f.result_ads, f.vast.error))
    ELSE Ok(f.vast)

\* the ads of the recursive call are put before the ads found so far
MergeNextVast_AtFront(f, next) ==
    IF next.ok /\ next.val.ads # <<>>
    THEN [f EXCEPT !.result_ads = next.val.ads \o f.result_ads, !.found_inline = TRUE,
                   !.i = f.i + 1]
    ELSE [f EXCEPT !.i = f.i + 1]

\* unwrap.rs:185-200: the caller's frame after the recursive call returned next
MergeNextVast(f, next) ==
    IF next.ok /\ next.val.ads # <<>>
    THEN [f EXCEPT !.result_ads = f.result_ads \o next.val.ads, !.found_inline = TRUE,
                   !.i = f.i + 1]
    ELSE [f EXCEPT !.i = f.i + 1]

CurAd(f) == f.vast.ads[f.i]

InLoop(b, pc) == b.pc = pc /\ b.stack # <<>> /\ Top(b.stack).i <= Len(Top(b.stack).vast.ads)

\* the harness calls unwrap_vast
CallUnwrapVast ==
    /\ callIx <= Len(Program)
    /\ Program[callIx].fn = "unwrap_vast"
    /\ blk.pc = "idle"
    /\ blk' = BeginUnwrapVast(Program[callIx].xml, "api")
    /\ UNCHANGED <<root, content, alt, callIx, results, tasks>>

\* unwrap.rs:133-140
UnwrapMaxDepth ==
    /\ blk.pc = "unwrap_enter"
    /\ DepthExceeded(blk.depth)
    /\ blk' = [blk EXCEPT !.pc = "unwrap_ret", !.ret = Some(Ok(MaxDepthVast))]
    /\ UNCHANGED <<root, content, alt, callIx, results, tasks>>

\* unwrap.rs:143-154, the Err arm
UnwrapParseFailed ==
    /\ blk.pc = "unwrap_enter"
    /\ ~DepthExceeded(blk.depth)
    /\ ~parse_vast(blk.xml).ok
    /\ blk' = [blk EXCEPT !.pc = "unwrap_ret", !.ret = Some(Ok(ParseFailedVast))]
    /\ UNCHANGED <<root, content, alt, callIx, results, tasks>>

\* unwrap.rs:143-158, the Ok arm
UnwrapParsed ==
    /\ blk.pc = "unwrap_enter"
    /\ ~DepthExceeded(blk.depth)
    /\ parse_vast(blk.xml).ok
    /\ blk' = [blk EXCEPT !.pc = "unwrap_loop",
                          !.parsed = Append(@, parse_vast(blk.xml).val),
                          !.parsed_at = Append(@, blk.depth),
                          !.stack = Append(@, UnwrapFrame(parse_vast(blk.xml).val, blk.depth))]
    /\ UNCHANGED <<root, content, alt, callIx, results, tasks>>

\* unwrap.rs:162-165
UnwrapAdInline ==
    /\ InLoop(blk, "unwrap_loop")
    /\ LET f == Top(blk.stack)
       IN  /\ IsSome(CurAd(f).inline)
           /\ blk' = [blk EXCEPT !.stack = SetTop(@,
                         [f EXCEPT !.result_ads = Append(@, CurAd(f)),
                                   !.found_inline = TRUE, !.i = @ + 1])]
    /\ UNCHANGED <<root, content, alt, callIx, results, tasks>>

\* unwrap.rs:160-209: an Ad with neither InLine nor Wrapper
UnwrapAdOther ==
    /\ InLoop(blk, "unwrap_loop")
    /\ LET f == Top(blk.stack)
       IN  /\ ~IsSome(CurAd(f).inline)
           /\ ~IsSome(CurAd(f).wrapper)
           /\ blk' = [blk EXCEPT !.stack = SetTop(@, [f EXCEPT !.i = @ + 1])]
    /\ UNCHANGED <<root, content, alt, callIx, results, tasks>>

\* unwrap.rs:167-176
UnwrapAdCycle ==
    /\ InLoop(blk, "unwrap_loop")
    /\ LET f == Top(blk.stack)
       IN  /\ ~IsSome(CurAd(f).inline)
           /\ IsSome(CurAd(f).wrapper)
           /\ Visited(Unwrap(CurAd(f).wrapper).vast_ad_tag_uri, blk.visited_urls)
           /\ blk' = [blk EXCEPT !.stack = SetTop(@, [f EXCEPT !.i = @ + 1])]
    /\ UNCHANGED <<root, content, alt, callIx, results, tasks>>

\* the fetch error leaves the function with the ? operator instead of being matched
UnwrapAdFetchErr_Propagates ==
    /\ InLoop(blk, "unwrap_loop")
    /\ LET f == Top(blk.stack)
           uri == Unwrap(CurAd(f).wrapper).vast_ad_tag_uri
       IN  /\ ~IsSome(CurAd(f).inline)
           /\ IsSome(CurAd(f).wrapper)
           /\ ~Visited(uri, blk.visited_urls)
           /\ ~IsSome(fetch_vast_content(uri))
           /\ blk' = [blk EXCEPT !.visited_urls = @ \cup {uri},
                                 !.fetched = Append(@, uri),
                                 !.pc = "unwrap_ret",
                                 !.ret = Some(Err("IoError")),
                                 !.stack = Pop(@)]
    /\ UNCHANGED <<root, content, alt, callIx, results, tasks>>

\* unwrap.rs:178-182 and 202-206: the fetch fails
UnwrapAdFetchErr ==
    /\ InLoop(blk, "unwrap_loop")
    /\ LET f == Top(blk.stack)
           uri == Unwrap(CurAd(f).wrapper).vast_ad_tag_uri
       IN  /\ ~IsSome(CurAd(f).inline)
           /\ IsSome(CurAd(f).wrapper)
           /\ ~Visited(uri, blk.visited_urls)
           /\ ~IsSome(fetch_vast_content(uri))
           /\ blk' = [blk EXCEPT !.visited_urls = @ \cup {uri},
                                 !.fetched = Append(@, uri),
                                 !.stack = SetTop(@, [f EXCEPT !.i = @ + 1])]
    /\ UNCHANGED <<root, content, alt, callIx, results, tasks>>

\* unwrap.rs:178-185: the fetch succeeds and the function calls itself
UnwrapAdFetchOk ==
    /\ InLoop(blk, "unwrap_loop")
    /\ LET f == Top(blk.stack)
           uri == Unwrap(CurAd(f).wrapper).vast_ad_tag_uri
       IN  /\ ~IsSome(CurAd(f).inline)
           /\ IsSome(CurAd(f).wrapper)
           /\ ~Visited(uri, blk.visited_urls)
           /\ IsSome(fetch_vast_content(uri))
           /\ blk' = [blk EXCEPT !.visited_urls = @ \cup {uri},
                                 !.fetched = Append(@, uri),
                                 !.pc = "unwrap_enter",
                                 !.xml = Unwrap(fetch_vast_content(uri)),
                                 !.depth = f.depth + 1]
    /\ UNCHANGED <<root, content, alt, callIx, results, tasks>>

\* unwrap.rs:211-222: the loop is over, the frame returns
UnwrapLoopEnd ==
    /\ blk.pc = "unwrap_loop"
    /\ blk.stack # <<>>
    /\ Top(blk.stack).i > Len(Top(blk.stack).vast.ads)
    /\ blk' = [blk EXCEPT !.pc = "unwrap_ret",
                          !.ret = Some(UnwrapReturnValue(Top(blk.stack))),
                          !.stack = Pop(@)]
    /\ UNCHANGED <<root, content, alt, callIx, results, tasks>>

\* unwrap.rs:185-200: a recursive call returns into its caller's loop
UnwrapReturnToParent ==
    /\ blk.pc = "unwrap_ret"
    /\ blk.stack # <<>>
    /\ blk' = [blk EXCEPT !.pc = "unwrap_loop",
                          !.ret = None,
                          !.stack = SetTop(@, MergeNextVast(Top(blk.stack), Unwrap(blk.ret)))]
    /\ UNCHANGED <<root, content, alt, callIx, results, tasks>>

\* unwrap.rs:22-24: unwrap_vast returns to the harness
UnwrapVastReturn ==
    /\ blk.pc = "unwrap_ret"
    /\ blk.stack = <<>>
    /\ blk.caller = "api"
    /\ results' = [results EXCEPT ![callIx] = blk.ret]
    /\ callIx' = callIx + 1
    /\ blk' = [blk EXCEPT !.pc = "idle", !.ret = None]
    /\ UNCHANGED <<root, content, alt, tasks>>

(***************************************************************************)
(* Blocking collect_wrapper_tracking and stitch_vast                       *)
(***************************************************************************)
\* stitcher.rs:47-51 collect_wrapper_tracking: an empty bundle, an empty visited list
BeginCollect(xml, caller) ==
    [IdleBlk EXCEPT !.pc = "collect_enter", !.caller = caller, !.xml = xml]

CollectFrame(vast) == [vast |-> vast, i |-> 1]

\* the harness calls stitch_vast, which first collects (stitcher.rs:7-9)
CallStitchVast ==
    /\ callIx <= Len(Program)
    /\ Program[callIx].fn = "stitch_vast"
    /\ blk.pc = "idle"
    /\ blk' = BeginCollect(Program[callIx].xml, "stitch")
    /\ UNCHANGED <<root, content, alt, callIx, results, tasks>>

\* stitcher.rs:106 and 126, 49: a parse error leaves every frame through `?`
CollectParseFailed ==
    /\ blk.pc = "collect_enter"
    /\ ~parse_vast(blk.xml).ok
    /\ blk' = [blk EXCEPT !.pc = "collect_ret", !.stack = <<>>,
                          !.ret = Some(Err(parse_vast(blk.xml).val))]
    /\ UNCHANGED <<root, content, alt, callIx, results, tasks>>

\* stitcher.rs:106-109
CollectParsed ==
    /\ blk.pc = "collect_enter"
    /\ parse_vast(blk.xml).ok
    /\ blk' = [blk EXCEPT !.pc = "collect_loop",
                          !.parsed = Append(@, parse_vast(blk.xml).val),
                          !.stack = Append(@, CollectFrame(parse_vast(blk.xml).val))]
    /\ UNCHANGED <<root, content, alt, callIx, results, tasks>>

\* stitcher.rs:109-110: an Ad without a Wrapper
CollectAdNotWrapper ==
    /\ InLoop(blk, "collect_loop")
    /\ LET f == Top(blk.stack)
       IN  /\ ~IsSome(CurAd(f).wrapper)
           /\ blk' = [blk EXCEPT !.stack = SetTop(@, [f EXCEPT !.i = @ + 1])]
    /\ UNCHANGED <<root, content, alt, callIx, results, tasks>>

\* a wrapper whose URI is already on the visited list is passed over whole
CollectAdCycle_NoExtract ==
    /\ InLoop(blk, "collect_loop")
    /\ LET f == Top(blk.stack)
           wrapper == Unwrap(CurAd(f).wrapper)
       IN  /\ IsSome(CurAd(f).wrapper)
           /\ InSeq(wrapper.vast_ad_tag_uri, blk.visited_vec)
           /\ blk' = [blk EXCEPT !.stack = SetTop(@, [f EXCEPT !.i = @ + 1])]
    /\ UNCHANGED <<root, content, alt, callIx, results, tasks>>

\* stitcher.rs:110-117
CollectAdCycle ==
    /\ InLoop(blk, "collect_loop")
    /\ LET f == Top(blk.stack)
           wrapper == Unwrap(CurAd(f).wrapper)
       IN  /\ IsSome(CurAd(f).wrapper)
           /\ InSeq(wrapper.vast_ad_tag_uri, blk.visited_vec)
           /\ blk' = [blk EXCEPT !.result = extract_wrapper_tracking(wrapper, @),
                                 !.hops = Append(@, wrapper),
                                 !.stack = SetTop(@, [f EXCEPT !.i = @ + 1])]
    /\ UNCHANGED <<root, content, alt, callIx, results, tasks>>

\* stitcher.rs:110-123 and 128-131: the fetch fails
CollectAdFetchErr ==
    /\ InLoop(blk, "collect_loop")
    /\ LET f == Top(blk.stack)
           wrapper == Unwrap(CurAd(f).wrapper)
       IN  /\ IsSome(CurAd(f).wrapper)
           /\ ~InSeq(wrapper.vast_ad_tag_uri, blk.visited_vec)
           /\ ~IsSome(fetch_vast_content(wrapper.vast_ad_tag_uri))
           /\ blk' = [blk EXCEPT !.result = extract_wrapper_tracking(wrapper, @),
                                 !.hops = Append(@, wrapper),
                                 !.visited_vec = Append(@, wrapper.vast_ad_tag_uri),
                                 !.fetched = Append(@, wrapper.vast_ad_tag_uri),
                                 !.stack = SetTop(@, [f EXCEPT !.i = @ + 1])]
    /\ UNCHANGED <<root, content, alt, callIx, results, tasks>>

\* stitcher.rs:110-126: the fetch succeeds and the function calls itself
CollectAdFetchOk ==
    /\ InLoop(blk, "collect_loop")
    /\ LET f == Top(blk.stack)
           wrapper == Unwrap(CurAd(f).wrapper)
       IN  /\ IsSome(CurAd(f).wrapper)
           /\ ~InSeq(wrapper.vast_ad_tag_uri, blk.visited_vec)
           /\ IsSome(fetch_vast_content(wrapper.vast_ad_tag_uri))
           /\ blk' = [blk EXCEPT !.result = extract_wrapper_tracking(wrapper, @),
                                 !.hops = Append(@, wrapper),
                                 !.visited_vec = Append(@, wrapper.vast_ad_tag_uri),
                                 !.fetched = Append(@, wrapper.vast_ad_tag_uri),
                                 !.pc = "collect_enter",
                                 !.xml = Unwrap(fetch_vast_content(wrapper.vast_ad_tag_uri))]
    /\ UNCHANGED <<root, content, alt, callIx, results, tasks>>

\* stitcher.rs:126 and 136: a recursive call returns Ok(()) into its caller's loop
CollectReturnToParent ==
    /\ blk.pc = "collect_loop"
    /\ Len(blk.stack) > 1
    /\ Top(blk.stack).i > Len(Top(blk.stack).vast.ads)
    /\ LET caller == Top(Pop(blk.stack))
       IN  blk' = [blk EXCEPT !.stack = SetTop(Pop(@), [caller EXCEPT !.i = @ + 1])]
    /\ UNCHANGED <<root, content, alt, callIx, results, tasks>>

\* stitcher.rs:136 and 49-50: the outermost call returns, the bundle is complete
CollectReturn ==
    /\ blk.pc = "collect_loop"
    /\ Len(blk.stack) = 1
    /\ Top(blk.stack).i > Len(Top(blk.stack).vast.ads)
    /\ blk' = [blk EXCEPT !.pc = "collect_ret", !.stack = <<>>,
                          !.ret = Some(Ok(blk.result))]
    /\ UNCHANGED <<root, content, alt, callIx, results, tasks>>

\* stitcher.rs:9: collect_wrapper_tracking(xml_content)? returns the error
StitchVastCollectFailed ==
    /\ blk.pc = "collect_ret"
    /\ blk.caller = "stitch"
    /\ ~Unwrap(blk.ret).ok
    /\ results' = [results EXCEPT ![callIx] = blk.ret]
    /\ callIx' = callIx + 1
    /\ blk' = [blk EXCEPT !.pc = "idle", !.ret = None]
    /\ UNCHANGED <<root, content, alt, tasks>>

\* stitcher.rs:9-12: the bundle is kept and unwrap_vast is called
StitchVastUnwrap ==
    /\ blk.pc = "collect_ret"
    /\ blk.caller = "stitch"
    /\ Unwrap(blk.ret).ok
    /\ blk' = [BeginUnwrapVast(Program[callIx].xml, "stitch") EXCEPT
                  !.wrapper_tracking = Unwrap(blk.ret).val, !.hops = blk.hops]
    /\ UNCHANGED <<root, content, alt, callIx, results, tasks>>

\* stitcher.rs:12-18: merge, serialize and return
StitchVastReturn ==
    /\ blk.pc = "unwrap_ret"
    /\ blk.stack = <<>>
    /\ blk.caller = "stitch"
    /\ \E order \in TagOrders(blk.wrapper_tracking.tracking_events) :
           /\ results' = [results EXCEPT ![callIx] =
                 Some(StitchReturnValue(Unwrap(blk.ret), blk.wrapper_tracking, order))]
           /\ blk' = [blk EXCEPT
                 !.pc = "idle", !.ret = None, !.unwrapped = blk.ret,
                 !.stitched =
                     IF Unwrap(blk.ret).ok
                     THEN Some(stitch_vast_from_unwrapped(Unwrap(blk.ret).val,
                                                          blk.wrapper_tracking, order))
                     ELSE None]
    /\ callIx' = callIx + 1
    /\ UNCHANGED <<root, content, alt, tasks>>

(***************************************************************************)
(* The suspending calls: each task owns the locals of its async fn         *)
(***************************************************************************)
TaskIds == {1}

\* the tasks of the concurrent callers: two futures polled by one executor
AllTasks == {1, 2}

\* where the harness keeps what task t returns: the slot of the call of the program
\* in progress, or the task's own slot when the task was spawned next to another
Slot(t) == IF callIx <= Len(Program) THEN callIx ELSE 6 + t

\* the program goes on with its next call; a spawned task leaves it where it is
AfterReturn == IF callIx <= Len(Program) THEN callIx + 1 ELSE callIx

\* unwrap.rs:38: let mut visited_urls = HashSet::new(), every call shares one set
VisitedSet_Shared(t) == UNION {tasks[u].visited_urls : u \in AllTasks}

\* unwrap.rs:38: let mut visited_urls = HashSet::new(), a local of the call
VisitedSet(t) == tasks[t].visited_urls

IdleTask ==
    [pc |-> "idle", caller |-> "none", xml |-> NoRootText, queue |-> <<>>,
     result_ads |-> <<>>, visited_urls |-> {}, last_valid_vast |-> None,
     ads |-> <<>>, i |-> 1, depth |-> 0, uri |-> 0, visited_vec |-> <<>>,
     result |-> EmptyTracking, wrapper_tracking |-> EmptyTracking, ret |-> None,
     fetched |-> <<>>, parsed |-> <<>>, parsed_at |-> <<>>, hops |-> <<>>,
     unwrapped |-> None, stitched |-> None]

\* unwrap.rs:37-43: the locals of unwrap_vast_async and the seeded queue
BeginUnwrapVastAsync(xml, caller) ==
    [IdleTask EXCEPT !.pc = "unwrap_pop", !.caller = caller, !.xml = xml,
                     !.queue = <<[xml |-> xml, depth |-> 0]>>]

\* unwrap.rs:101-127: the value unwrap_vast_async returns when the queue is empty
AsyncReturnValue(tk) ==
    IF tk.result_ads # <<>>
    THEN Ok(Vast(IF parse_vast(tk.xml).ok THEN parse_vast(tk.xml).val.version ELSE "4.0",
                 tk.result_ads, None))
    ELSE IF IsSome(tk.last_valid_vast)
    THEN Ok(Unwrap(tk.last_valid_vast))
    ELSE Ok(NoValidVast)

AsyncInAds(tk) == tk.pc = "unwrap_ads" /\ tk.i <= Len(tk.ads)

\* the harness calls unwrap_vast_async
CallUnwrapVastAsync(t) ==
    /\ callIx <= Len(Program)
    /\ Program[callIx].fn = "unwrap_vast_async"
    /\ blk.pc = "idle"
    /\ tasks[t].pc = "idle"
    /\ tasks' = [tasks EXCEPT ![t] = BeginUnwrapVastAsync(Program[callIx].xml, "api")]
    /\ UNCHANGED <<root, content, alt, callIx, results, blk>>

\* unwrap.rs:45-50
AsyncPopMaxDepth(t) ==
    /\ tasks[t].pc = "unwrap_pop"
    /\ tasks[t].queue # <<>>
    /\ DepthExceeded(Head(tasks[t].queue).depth)
    /\ tasks' = [tasks EXCEPT ![t].queue = PopFront(@)]
    /\ UNCHANGED <<root, content, alt, callIx, results, blk>>

\* the item that failed to parse is looked at but not taken off the queue
AsyncPopParseFailed_NoPop(t) ==
    /\ tasks[t].pc = "unwrap_pop"
    /\ tasks[t].queue # <<>>
    /\ ~DepthExceeded(Head(tasks[t].queue).depth)
    /\ ~parse_vast(Head(tasks[t].queue).xml).ok
    /\ UNCHANGED vars

\* unwrap.rs:53-59, the Err arm
AsyncPopParseFailed(t) ==
    /\ tasks[t].pc = "unwrap_pop"
    /\ tasks[t].queue # <<>>
    /\ ~DepthExceeded(Head(tasks[t].queue).depth)
    /\ ~parse_vast(Head(tasks[t].queue).xml).ok
    /\ tasks' = [tasks EXCEPT ![t].queue = PopFront(@)]
    /\ UNCHANGED <<root, content, alt, callIx, results, blk>>

\* unwrap.rs:53-65, the Ok arm
AsyncPopParsed(t) ==
    /\ tasks[t].pc = "unwrap_pop"
    /\ tasks[t].queue # <<>>
    /\ ~DepthExceeded(Head(tasks[t].queue).depth)
    /\ parse_vast(Head(tasks[t].queue).xml).ok
    /\ LET vast == parse_vast(Head(tasks[t].queue).xml).val
       IN  tasks' = [tasks EXCEPT ![t].queue = PopFront(@),
                                  ![t].parsed = Append(@, vast),
                                  ![t].parsed_at = Append(@, Head(tasks[t].queue).depth),
                                  ![t].last_valid_vast = Some(vast),
                                  ![t].ads = vast.ads,
                                  ![t].i = 1,
                                  ![t].depth = Head(tasks[t].queue).depth,
                                  ![t].pc = "unwrap_ads"]
    /\ UNCHANGED <<root, content, alt, callIx, results, blk>>

\* unwrap.rs:67-69
AsyncAdInline(t) ==
    /\ AsyncInAds(tasks[t])
    /\ IsSome(tasks[t].ads[tasks[t].i].inline)
    /\ tasks' = [tasks EXCEPT ![t].result_ads = Append(@, tasks[t].ads[tasks[t].i]),
                              ![t].i = @ + 1]
    /\ UNCHANGED <<root, content, alt, callIx, results, blk>>

\* unwrap.rs:65-98: an Ad with neither InLine nor Wrapper
AsyncAdOther(t) ==
    /\ AsyncInAds(tasks[t])
    /\ ~IsSome(tasks[t].ads[tasks[t].i].inline)
    /\ ~IsSome(tasks[t].ads[tasks[t].i].wrapper)
    /\ tasks' = [tasks EXCEPT ![t].i = @ + 1]
    /\ UNCHANGED <<root, content, alt, callIx, results, blk>>

\* unwrap.rs:71-80
AsyncAdCycle(t) ==
    /\ AsyncInAds(tasks[t])
    /\ ~IsSome(tasks[t].ads[tasks[t].i].inline)
    /\ IsSome(tasks[t].ads[tasks[t].i].wrapper)
    /\ Visited(Unwrap(tasks[t].ads[tasks[t].i].wrapper).vast_ad_tag_uri, VisitedSet(t))
    /\ tasks' = [tasks EXCEPT ![t].i = @ + 1]
    /\ UNCHANGED <<root, content, alt, callIx, results, blk>>

\* unwrap.rs:82-86: the URI is marked visited and the fetch is awaited
AsyncAdFetch(t) ==
    /\ AsyncInAds(tasks[t])
    /\ ~IsSome(tasks[t].ads[tasks[t].i].inline)
    /\ IsSome(tasks[t].ads[tasks[t].i].wrapper)
    /\ LET uri == Unwrap(tasks[t].ads[tasks[t].i].wrapper).vast_ad_tag_uri
       IN  /\ ~Visited(uri, VisitedSet(t))
           /\ tasks' = [tasks EXCEPT ![t].visited_urls = @ \cup {uri},
                                     ![t].fetched = Append(@, uri),
                                     ![t].uri = uri,
                                     ![t].pc = "unwrap_await"]
    /\ UNCHANGED <<root, content, alt, callIx, results, blk>>

\* the text fetched is not put on the queue
AsyncFetchOk_Forgets(t) ==
    /\ tasks[t].pc = "unwrap_await"
    /\ IsSome(fetch_vast_content(tasks[t].uri))
    /\ tasks' = [tasks EXCEPT ![t].i = @ + 1, ![t].pc = "unwrap_ads"]
    /\ UNCHANGED <<root, content, alt, callIx, results, blk>>

\* unwrap.rs:87-90: the awaited fetch succeeded
AsyncFetchOk(t) ==
    /\ tasks[t].pc = "unwrap_await"
    /\ IsSome(fetch_vast_content(tasks[t].uri))
    /\ tasks' = [tasks EXCEPT ![t].queue =
                                  Append(@, [xml |-> Unwrap(fetch_vast_content(tasks[t].uri)),
                                             depth |-> tasks[t].depth + 1]),
                              ![t].i = @ + 1,
                              ![t].pc = "unwrap_ads"]
    /\ UNCHANGED <<root, content, alt, callIx, results, blk>>

\* the failed fetch leaves the for loop (break) instead of going on with the next Ad
AsyncFetchErr_Breaks(t) ==
    /\ tasks[t].pc = "unwrap_await"
    /\ ~IsSome(fetch_vast_content(tasks[t].uri))
    /\ tasks' = [tasks EXCEPT ![t].i = Len(tasks[t].ads) + 1, ![t].pc = "unwrap_ads"]
    /\ UNCHANGED <<root, content, alt, callIx, results, blk>>

\* unwrap.rs:91-95: the awaited fetch failed
AsyncFetchErr(t) ==
    /\ tasks[t].pc = "unwrap_await"
    /\ ~IsSome(fetch_vast_content(tasks[t].uri))
    /\ tasks' = [tasks EXCEPT ![t].i = @ + 1, ![t].pc = "unwrap_ads"]
    /\ UNCHANGED <<root, content, alt, callIx, results, blk>>

\* unwrap.rs:65-99: the for loop is over, back to the while loop
AsyncAdsEnd(t) ==
    /\ tasks[t].pc = "unwrap_ads"
    /\ tasks[t].i > Len(tasks[t].ads)
    /\ tasks' = [tasks EXCEPT ![t].pc = "unwrap_pop"]
    /\ UNCHANGED <<root, content, alt, callIx, results, blk>>

\* unwrap.rs:45 and 101-127: the queue is empty
AsyncQueueEmpty(t) ==
    /\ tasks[t].pc = "unwrap_pop"
    /\ tasks[t].queue = <<>>
    /\ tasks' = [tasks EXCEPT ![t].pc = "unwrap_ret",
                              ![t].ret = Some(AsyncReturnValue(tasks[t]))]
    /\ UNCHANGED <<root, content, alt, callIx, results, blk>>

\* lib.rs:16-18: unwrap_vast_async returns to the harness
UnwrapVastAsyncReturn(t) ==
    /\ tasks[t].pc = "unwrap_ret"
    /\ tasks[t].caller = "api"
    /\ results' = [results EXCEPT ![Slot(t)] = tasks[t].ret]
    /\ callIx' = AfterReturn
    /\ tasks' = [tasks EXCEPT ![t].pc = "idle", ![t].ret = None]
    /\ UNCHANGED <<root, content, alt, blk>>

(***************************************************************************)
(* Suspending collect_wrapper_tracking_async and stitch_vast_async         *)
(***************************************************************************)
\* stitcher.rs:56-61: the locals of collect_wrapper_tracking_async and the seeded queue
BeginCollectAsync(xml, caller) ==
    [IdleTask EXCEPT !.pc = "collect_pop", !.caller = caller, !.xml = xml,
                     !.queue = <<xml>>]

CollectAsyncInAds(tk) == tk.pc = "collect_ads" /\ tk.i <= Len(tk.ads)

\* the harness calls stitch_vast_async, which first collects (stitcher.rs:22-24)
CallStitchVastAsync(t) ==
    /\ callIx <= Len(Program)
    /\ Program[callIx].fn = "stitch_vast_async"
    /\ blk.pc = "idle"
    /\ tasks[t].pc = "idle"
    /\ tasks' = [tasks EXCEPT ![t] = BeginCollectAsync(Program[callIx].xml, "stitch")]
    /\ UNCHANGED <<root, content, alt, callIx, results, blk>>

\* stitcher.rs:63-65: parse_vast(&current_xml)? returns the error
CollectAsyncParseFailed(t) ==
    /\ tasks[t].pc = "collect_pop"
    /\ tasks[t].queue # <<>>
    /\ ~parse_vast(Head(tasks[t].queue)).ok
    /\ tasks' = [tasks EXCEPT ![t].queue = PopFront(@),
                              ![t].pc = "collect_ret",
                              ![t].ret = Some(Err(parse_vast(Head(tasks[t].queue)).val))]
    /\ UNCHANGED <<root, content, alt, callIx, results, blk>>

\* stitcher.rs:63-68
CollectAsyncParsed(t) ==
    /\ tasks[t].pc = "collect_pop"
    /\ tasks[t].queue # <<>>
    /\ parse_vast(Head(tasks[t].queue)).ok
    /\ tasks' = [tasks EXCEPT ![t].queue = PopFront(@),
                              ![t].parsed = Append(@, parse_vast(Head(tasks[t].queue)).val),
                              ![t].ads = parse_vast(Head(tasks[t].queue)).val.ads,
                              ![t].i = 1,
                              ![t].pc = "collect_ads"]
    /\ UNCHANGED <<root, content, alt, callIx, results, blk>>

\* stitcher.rs:68-69: an Ad without a Wrapper
CollectAsyncAdNotWrapper(t) ==
    /\ CollectAsyncInAds(tasks[t])
    /\ ~IsSome(tasks[t].ads[tasks[t].i].wrapper)
    /\ tasks' = [tasks EXCEPT ![t].i = @ + 1]
    /\ UNCHANGED <<root, content, alt, callIx, results, blk>>

\* stitcher.rs:69-76
CollectAsyncAdCycle(t) ==
    /\ CollectAsyncInAds(tasks[t])
    /\ IsSome(tasks[t].ads[tasks[t].i].wrapper)
    /\ LET wrapper == Unwrap(tasks[t].ads[tasks[t].i].wrapper)
       IN  /\ InSeq(wrapper.vast_ad_tag_uri, tasks[t].visited_vec)
           /\ tasks' = [tasks EXCEPT ![t].result = extract_wrapper_tracking(wrapper, @),
                                     ![t].hops = Append(@, wrapper),
                                     ![t].i = @ + 1]
    /\ UNCHANGED <<root, content, alt, callIx, results, blk>>

\* stitcher.rs:69-82: the URI is pushed on the visited list and the fetch is awaited
CollectAsyncAdFetch(t) ==
    /\ CollectAsyncInAds(tasks[t])
    /\ IsSome(tasks[t].ads[tasks[t].i].wrapper)
    /\ LET wrapper == Unwrap(tasks[t].ads[tasks[t].i].wrapper)
       IN  /\ ~InSeq(wrapper.vast_ad_tag_uri, tasks[t].visited_vec)
           /\ tasks' = [tasks EXCEPT ![t].result = extract_wrapper_tracking(wrapper, @),
                                     ![t].hops = Append(@, wrapper),
                                     ![t].visited_vec = Append(@, wrapper.vast_ad_tag_uri),
                                     ![t].fetched = Append(@, wrapper.vast_ad_tag_uri),
                                     ![t].uri = wrapper.vast_ad_tag_uri,
                                     ![t].pc = "collect_await"]
    /\ UNCHANGED <<root, content, alt, callIx, results, blk>>

\* stitcher.rs:83-86: the awaited fetch succeeded
CollectAsyncFetchOk(t) ==
    /\ tasks[t].pc = "collect_await"
    /\ IsSome(fetch_vast_content(tasks[t].uri))
    /\ tasks' = [tasks EXCEPT ![t].queue = Append(@, Unwrap(fetch_vast_content(tasks[t].uri))),
                              ![t].i = @ + 1,
                              ![t].pc = "collect_ads"]
    /\ UNCHANGED <<root, content, alt, callIx, results, blk>>

\* stitcher.rs:87-90: the awaited fetch failed
CollectAsyncFetchErr(t) ==
    /\ tasks[t].pc = "collect_await"
    /\ ~IsSome(fetch_vast_content(tasks[t].uri))
    /\ tasks' = [tasks EXCEPT ![t].i = @ + 1, ![t].pc = "collect_ads"]
    /\ UNCHANGED <<root, content, alt, callIx, results, blk>>

\* stitcher.rs:68-93: the for loop is over, back to the while loop
CollectAsyncAdsEnd(t) ==
    /\ tasks[t].pc = "collect_ads"
    /\ tasks[t].i > Len(tasks[t].ads)
    /\ tasks' = [tasks EXCEPT ![t].pc = "collect_pop"]
    /\ UNCHANGED <<root, content, alt, callIx, results, blk>>

\* stitcher.rs:63 and 96: the queue is empty, the bundle is complete
CollectAsyncQueueEmpty(t) ==
    /\ tasks[t].pc = "collect_pop"
    /\ tasks[t].queue = <<>>
    /\ tasks' = [tasks EXCEPT ![t].pc = "collect_ret",
                              ![t].ret = Some(Ok(tasks[t].result))]
    /\ UNCHANGED <<root, content, alt, callIx, results, blk>>

\* stitcher.rs:24: collect_wrapper_tracking_async(xml_content).await? returns the error
StitchVastAsyncCollectFailed(t) ==
    /\ tasks[t].pc = "collect_ret"
    /\ tasks[t].caller = "stitch"
    /\ ~Unwrap(tasks[t].ret).ok
    /\ results' = [results EXCEPT ![Slot(t)] = tasks[t].ret]
    /\ callIx' = AfterReturn
    /\ tasks' = [tasks EXCEPT ![t].pc = "idle", ![t].ret = None]
    /\ UNCHANGED <<root, content, alt, blk>>

\* stitcher.rs:24-27: the bundle is kept and unwrap_vast_async is called
StitchVastAsyncUnwrap(t) ==
    /\ tasks[t].pc = "collect_ret"
    /\ tasks[t].caller = "stitch"
    /\ Unwrap(tasks[t].ret).ok
    /\ tasks' = [tasks EXCEPT ![t] =
                    [BeginUnwrapVastAsync(tasks[t].xml, "stitch") EXCEPT
                        !.wrapper_tracking = Unwrap(tasks[t].ret).val,
                        !.hops = tasks[t].hops]]
    /\ UNCHANGED <<root, content, alt, callIx, results, blk>>

\* stitcher.rs:27-33: merge, serialize and return
StitchVastAsyncReturn(t) ==
    /\ tasks[t].pc = "unwrap_ret"
    /\ tasks[t].caller = "stitch"
    /\ \E order \in TagOrders(tasks[t].wrapper_tracking.tracking_events) :
           /\ results' = [results EXCEPT ![Slot(t)] =
                 Some(StitchReturnValue(Unwrap(tasks[t].ret), tasks[t].wrapper_tracking, order))]
           /\ tasks' = [tasks EXCEPT
                 ![t].pc = "idle", ![t].ret = None, ![t].unwrapped = tasks[t].ret,
                 ![t].stitched =
                     IF Unwrap(tasks[t].ret).ok
                     THEN Some(stitch_vast_from_unwrapped(Unwrap(tasks[t].ret).val,
                                                          tasks[t].wrapper_tracking, order))
                     ELSE None]
    /\ callIx' = AfterReturn
    /\ UNCHANGED <<root, content, alt, blk>>

(***************************************************************************)
(* The specification                                                       *)
(***************************************************************************)
InitWorld(w) ==
    /\ root = w.root
    /\ content = w.content
    /\ alt \in AltRoots(w)

\* the small redirect graphs
GraphInit ==
    \E n \in AdCounts :
        \E r \in GraphRootTexts(n[0]), h1 \in GraphHopOutcomes(1, n[1]),
           h2 \in GraphHopOutcomes(2, n[2]) :
            /\ AllReachable(r, GraphContent(h1, h2))
            /\ InitWorld([root |-> r, content |-> GraphContent(h1, h2)])

\* the wrapper chains
ChainInit == \E p \in ChainParams : InitWorld(ChainWorld(p))

\* the decorated chains
TrackedInit ==
    \E k \in 0..Cardinality(GraphURIs) :
        \E ds \in [0..k -> Decors] : InitWorld(TrackedWorld(k, ds))

Init ==
    /\ GraphInit \/ ChainInit \/ TrackedInit
    /\ callIx = 1
    /\ results = [i \in 1..8 |-> None]
    /\ blk = IdleBlk
    /\ tasks = [t \in AllTasks |-> IdleTask]

Next ==
    \/ CallUnwrapVast
    \/ UnwrapMaxDepth
    \/ UnwrapParseFailed
    \/ UnwrapParsed
    \/ UnwrapAdInline
    \/ UnwrapAdOther
    \/ UnwrapAdCycle
    \/ UnwrapAdFetchErr
    \/ UnwrapAdFetchOk
    \/ UnwrapLoopEnd
    \/ UnwrapReturnToParent
    \/ UnwrapVastReturn
    \/ CallStitchVast
    \/ CollectParseFailed
    \/ CollectParsed
    \/ CollectAdNotWrapper
    \/ CollectAdCycle
    \/ CollectAdFetchErr
    \/ CollectAdFetchOk
    \/ CollectReturnToParent
    \/ CollectReturn
    \/ StitchVastCollectFailed
    \/ StitchVastUnwrap
    \/ StitchVastReturn
    \/ \E t \in TaskIds : CallUnwrapVastAsync(t)
    \/ \E t \in TaskIds : AsyncPopMaxDepth(t)
    \/ \E t \in TaskIds : AsyncPopParseFailed(t)
    \/ \E t \in TaskIds : AsyncPopParsed(t)
    \/ \E t \in TaskIds : AsyncAdInline(t)
    \/ \E t \in TaskIds : AsyncAdOther(t)
    \/ \E t \in TaskIds : AsyncAdCycle(t)
    \/ \E t \in TaskIds : AsyncAdFetch(t)
    \/ \E t \in TaskIds : AsyncFetchOk(t)
    \/ \E t \in TaskIds : AsyncFetchErr(t)
    \/ \E t \in TaskIds : AsyncAdsEnd(t)
    \/ \E t \in TaskIds : AsyncQueueEmpty(t)
    \/ \E t \in TaskIds : UnwrapVastAsyncReturn(t)
    \/ \E t \in TaskIds : CallStitchVastAsync(t)
    \/ \E t \in TaskIds : CollectAsyncParseFailed(t)
    \/ \E t \in TaskIds : CollectAsyncParsed(t)
    \/ \E t \in TaskIds : CollectAsyncAdNotWrapper(t)
    \/ \E t \in TaskIds : CollectAsyncAdCycle(t)
    \/ \E t \in TaskIds : CollectAsyncAdFetch(t)
    \/ \E t \in TaskIds : CollectAsyncFetchOk(t)
    \/ \E t \in TaskIds : CollectAsyncFetchErr(t)
    \/ \E t \in TaskIds : CollectAsyncAdsEnd(t)
    \/ \E t \in TaskIds : CollectAsyncQueueEmpty(t)
    \/ \E t \in TaskIds : StitchVastAsyncCollectFailed(t)
    \/ \E t \in TaskIds : StitchVastAsyncUnwrap(t)
    \/ \E t \in TaskIds : StitchVastAsyncReturn(t)

Spec == Init /\ [][Next]_vars

FairSpec == Spec /\ WF_vars(Next)

(***************************************************************************)
(* Two suspending calls polled by one executor, after the program: a task  *)
(* runs from one await point to the next while the other is suspended or   *)
(* not running, and either may be resumed at every await point.            *)
(***************************************************************************)
ConcFns == {"unwrap_vast_async", "stitch_vast_async"}

\* where a future is when it is not being polled
SuspensionPoints == {"idle", "unwrap_await", "collect_await"}

\* the executor may poll task t: no other task is in the middle of a poll
Sched(t) == \A u \in AllTasks \ {t} : tasks[u].pc \in SuspensionPoints

\* lib.rs:16-22: a caller starts one of the async functions on the root as task t;
\* the tasks are started in the order of their numbers
ConcSpawn(t) ==
    /\ callIx > Len(Program)
    /\ tasks[t].pc = "idle"
    /\ results[6 + t] = None
    /\ \A u \in AllTasks : u < t => (tasks[u].pc # "idle" \/ results[6 + u] # None)
    /\ Sched(t)
    /\ \E fn \in ConcFns :
           tasks' = [tasks EXCEPT ![t] =
                        IF fn = "unwrap_vast_async"
                        THEN BeginUnwrapVastAsync(root, "api")
                        ELSE BeginCollectAsync(root, "stitch")]
    /\ UNCHANGED <<root, content, alt, callIx, results, blk>>

\* the inputs of the concurrent callers: the redirect graphs over GraphURIs, and the
\* chains that reach the depth limit
SmallWorld == \A u \in URIs \ GraphURIs : ~IsSome(content[u])

DeepChain ==
    /\ IsSome(content[MAX_WRAPPER_DEPTH])
    /\ ~IsSome(content[MAX_WRAPPER_DEPTH + 1])
    /\ root.version = "2.0"
    /\ Unwrap(content[1]).version = "3.0"

\* the two concurrent calls run on the undecorated inputs
ConcInit ==
    /\ GraphInit \/ ChainInit
    /\ ~IsSome(alt)
    /\ SmallWorld \/ DeepChain
    /\ callIx = 1
    /\ results = [i \in 1..8 |-> None]
    /\ blk = IdleBlk
    /\ tasks = [t \in AllTasks |-> IdleTask]

ConcNext ==
    \/ CallUnwrapVast
    \/ UnwrapMaxDepth
    \/ UnwrapParseFailed
    \/ UnwrapParsed
    \/ UnwrapAdInline
    \/ UnwrapAdOther
    \/ UnwrapAdCycle
    \/ UnwrapAdFetchErr
    \/ UnwrapAdFetchOk
    \/ UnwrapLoopEnd
    \/ UnwrapReturnToParent
    \/ UnwrapVastReturn
    \/ CallStitchVast
    \/ CollectParseFailed
    \/ CollectParsed
    \/ CollectAdNotWrapper
    \/ CollectAdCycle
    \/ CollectAdFetchErr
    \/ CollectAdFetchOk
    \/ CollectReturnToParent
    \/ CollectReturn
    \/ StitchVastCollectFailed
    \/ StitchVastUnwrap
    \/ StitchVastReturn
    \/ \E t \in TaskIds : CallUnwrapVastAsync(t)
    \/ \E t \in AllTasks : Sched(t) /\ AsyncPopMaxDepth(t)
    \/ \E t \in AllTasks : Sched(t) /\ AsyncPopParseFailed(t)
    \/ \E t \in AllTasks : Sched(t) /\ AsyncPopParsed(t)
    \/ \E t \in AllTasks : Sched(t) /\ AsyncAdInline(t)
    \/ \E t \in AllTasks : Sched(t) /\ AsyncAdOther(t)
    \/ \E t \in AllTasks : Sched(t) /\ AsyncAdCycle(t)
    \/ \E t \in AllTasks : Sched(t) /\ AsyncAdFetch(t)
    \/ \E t \in AllTasks : Sched(t) /\ AsyncFetchOk(t)
    \/ \E t \in AllTasks : Sched(t) /\ AsyncFetchErr(t)
    \/ \E t \in AllTasks : Sched(t) /\ AsyncAdsEnd(t)
    \/ \E t \in AllTasks : Sched(t) /\ AsyncQueueEmpty(t)
    \/ \E t \in AllTasks : Sched(t) /\ UnwrapVastAsyncReturn(t)
    \/ \E t \in TaskIds : CallStitchVastAsync(t)
    \/ \E t \in AllTasks : Sched(t) /\ CollectAsyncParseFailed(t)
    \/ \E t \in AllTasks : Sched(t) /\ CollectAsyncParsed(t)
    \/ \E t \in AllTasks : Sched(t) /\ CollectAsyncAdNotWrapper(t)
    \/ \E t \in AllTasks : Sched(t) /\ CollectAsyncAdCycle(t)
    \/ \E t \in AllTasks : Sched(t) /\ CollectAsyncAdFetch(t)
    \/ \E t \in AllTasks : Sched(t) /\ CollectAsyncFetchOk(t)
    \/ \E t \in AllTasks : Sched(t) /\ CollectAsyncFetchErr(t)
    \/ \E t \in AllTasks : Sched(t) /\ CollectAsyncAdsEnd(t)
    \/ \E t \in AllTasks : Sched(t) /\ CollectAsyncQueueEmpty(t)
    \/ \E t \in AllTasks : Sched(t) /\ StitchVastAsyncCollectFailed(t)
    \/ \E t \in AllTasks : Sched(t) /\ StitchVastAsyncUnwrap(t)
    \/ \E t \in AllTasks : Sched(t) /\ StitchVastAsyncReturn(t)
    \/ \E t \in AllTasks : ConcSpawn(t)

ConcSpec == ConcInit /\ [][ConcNext]_vars

(***************************************************************************)
(* parse_vast called on its own (lib.rs:11-14, main.rs:62)                 *)
(***************************************************************************)
\* the texts handed to parse_vast: with or without a VAST start tag, with any
\* version or none, well-formed after the start tag or not, with up to MaxAds Ads
ParseTexts ==
    {Text(r, v, w, MkAds(0, ks)) :
        r \in BOOLEAN, v \in Versions \cup {""}, w \in BOOLEAN,
        ks \in UNION {[1..n -> HopKinds] : n \in 0..MaxAds}}

ParseInit ==
    /\ root \in ParseTexts
    /\ content = [u \in URIs |-> None]
    /\ alt = None
    /\ callIx = 1
    /\ results = [i \in 1..8 |-> None]
    /\ blk = IdleBlk
    /\ tasks = [t \in AllTasks |-> IdleTask]

\* lib.rs:11-14: the caller gets what parser::parse_vast returns
CallParseVast ==
    /\ callIx = 1
    /\ results' = [results EXCEPT ![1] = Some(parse_vast(root))]
    /\ callIx' = 2
    /\ UNCHANGED <<root, content, alt, blk, tasks>>

ParseSpec == ParseInit /\ [][CallParseVast]_vars

(***************************************************************************)
(* Vocabulary of the properties                                            *)
(***************************************************************************)
Running == callIx <= Len(Program)

\* the text the call in progress was made on
CurXml == Program[callIx].xml

\* the blocking unwrap_vast_with_depth(xml, 0, ..) has returned
BlkUnwrapReturned == Running /\ blk.pc = "unwrap_ret" /\ blk.stack = <<>>

\* unwrap_vast_async has returned
AsyncUnwrapReturned(t) == Running /\ tasks[t].pc = "unwrap_ret"

IsInlineAd(ad) == IsSome(ad.inline)

\* an Ad the resolver follows as a wrapper
IsWrapperAd(ad) == ~IsSome(ad.inline) /\ IsSome(ad.wrapper)

AllInline(ads) == \A i \in 1..Len(ads) : IsInlineAd(ads[i])

HasInline(ads) == \E i \in 1..Len(ads) : IsInlineAd(ads[i])

NoChain == [k |-> -1, doc |-> Vast("", <<>>, None)]

\* the linear wrapper chain that starts at xml: k wrappers, each the only Ad of a
\* document that parses, over distinct URIs that all fetch, then a document doc
\* that holds Inline ads only; NoChain when xml starts no such chain
RECURSIVE ChainEnd(_, _, _)
ChainEnd(xml, k, seen) ==
    IF ~parse_vast(xml).ok THEN NoChain
    ELSE LET v == parse_vast(xml).val
         IN  IF v.ads # <<>> /\ AllInline(v.ads) /\ \A i \in 1..Len(v.ads) : ~IsSome(v.ads[i].wrapper)
             THEN [k |-> k, doc |-> v]
             ELSE IF Len(v.ads) = 1 /\ IsWrapperAd(v.ads[1])
             THEN LET uri == Unwrap(v.ads[1].wrapper).vast_ad_tag_uri
                  IN  IF uri \notin seen /\ IsSome(content[uri])
                      THEN ChainEnd(Unwrap(content[uri]), k + 1, seen \cup {uri})
                      ELSE NoChain
             ELSE NoChain

(***************************************************************************)
(* C1: a linear wrapper chain of k < MAX_WRAPPER_DEPTH wrappers that ends  *)
(* in a document D of Inline ads resolves, in the blocking and in the      *)
(* suspending mode, to exactly D's ads in D's order under the root's       *)
(* version.                                                                *)
(***************************************************************************)
ChainResolved(ret, ch) ==
    /\ ret.ok
    /\ ret.val.ads = ch.doc.ads
    /\ ret.val.version = parse_vast(CurXml).val.version

C1_LinearChainResolves ==
    Running =>
        LET ch == ChainEnd(CurXml, 0, {})
        IN  (ch.k >= 0 /\ ch.k < MAX_WRAPPER_DEPTH) =>
                /\ BlkUnwrapReturned => ChainResolved(Unwrap(blk.ret), ch)
                /\ \A t \in TaskIds :
                       AsyncUnwrapReturned(t) => ChainResolved(Unwrap(tasks[t].ret), ch)

\* both modes have resolved the longest chain the depth limit admits, whose
\* last document has another version than the root
C1_Witness ==
    /\ Running
    /\ IsSome(results[1])
    /\ Unwrap(results[1]).val.ads = ChainEnd(root, 0, {}).doc.ads
    /\ AsyncUnwrapReturned(1)
    /\ CurXml = root
    /\ ChainEnd(root, 0, {}).k = MAX_WRAPPER_DEPTH - 1
    /\ ChainEnd(root, 0, {}).doc.version # parse_vast(root).val.version
    /\ Len(ChainEnd(root, 0, {}).doc.ads) = 2

(***************************************************************************)
(* C2: every call terminates, whatever the redirect graph (self-cycles and *)
(* longer cycles included) and whatever fetches and parses fail: the       *)
(* blocking and the suspending resolve and tracking collection all return. *)
(***************************************************************************)
C2_EveryCallReturns == <>(~Running)

\* some document's wrapper points at the document's own URI
SelfCycleAt(u) == IsSome(content[u]) /\ u \in Refs(Unwrap(content[u]))

\* two documents whose wrappers point at each other
TwoCycleAt(u, v) ==
    /\ u # v
    /\ IsSome(content[u]) /\ v \in Refs(Unwrap(content[u]))
    /\ IsSome(content[v]) /\ u \in Refs(Unwrap(content[v]))

\* every call has returned on a graph with a cycle that the last traversal entered
C2_Witness ==
    /\ ~Running
    /\ \E u \in URIs :
           /\ InSeq(u, tasks[1].fetched)
           /\ SelfCycleAt(u) \/ \E v \in URIs : TwoCycleAt(u, v)
    /\ \E u \in URIs : InSeq(u, tasks[1].fetched) /\ ~IsSome(content[u])

(***************************************************************************)
(* C3: within one traversal (resolve or tracking collection, blocking or   *)
(* suspending) no URI is fetched twice, a failed one included, and a URI   *)
(* is in the visited set by the time its fetch is attempted.               *)
(***************************************************************************)
NoDuplicates(seq) == \A i, j \in 1..Len(seq) : i # j => seq[i] # seq[j]

C3_EachUriFetchedOnce ==
    /\ NoDuplicates(blk.fetched)
    /\ \A i \in 1..Len(blk.fetched) :
           blk.fetched[i] \in blk.visited_urls \/ InSeq(blk.fetched[i], blk.visited_vec)
    /\ \A t \in TaskIds :
           /\ NoDuplicates(tasks[t].fetched)
           /\ \A i \in 1..Len(tasks[t].fetched) :
                  \/ tasks[t].fetched[i] \in tasks[t].visited_urls
                  \/ InSeq(tasks[t].fetched[i], tasks[t].visited_vec)

\* the number of wrappers of the parsed documents that point at URI u
RefCount(parsed, u) ==
    Cardinality({p \in {<<d, i>> : d \in 1..Len(parsed), i \in 1..MaxAds} :
                    /\ p[2] <= Len(parsed[p[1]].ads)
                    /\ IsWrapperAd(parsed[p[1]].ads[p[2]])
                    /\ Unwrap(parsed[p[1]].ads[p[2]].wrapper).vast_ad_tag_uri = u})

\* a resolve has ended in which a URI whose fetch failed was pointed at by two
\* wrappers, one of them in a deeper document, and was fetched once
C3_Witness ==
    /\ BlkUnwrapReturned
    /\ \E u \in URIs :
           /\ ~IsSome(content[u])
           /\ InSeq(u, blk.fetched)
           /\ RefCount(blk.parsed, u) >= 2
           /\ RefCount(<<blk.parsed[1]>>, u) = 1

(***************************************************************************)
(* C4: resolve on a root text that fails to parse returns Err, in the      *)
(* blocking and in the suspending mode, and no successful Document.        *)
(***************************************************************************)
C4_RootParseFailureIsErr ==
    (Running /\ ~parse_vast(CurXml).ok) =>
        /\ BlkUnwrapReturned => ~Unwrap(blk.ret).ok
        /\ \A t \in TaskIds : AsyncUnwrapReturned(t) => ~Unwrap(tasks[t].ret).ok

(***************************************************************************)
(* C5: when the root parses, resolve returns Ok in both modes whatever     *)
(* fetch or parse fails at deeper hops: the returned Document carries no   *)
(* error, and every Ad in it comes from a document that was fetched and    *)
(* parsed, so a failing hop contributes none.                              *)
(***************************************************************************)
FromParsed(ads, parsed) ==
    \A i \in 1..Len(ads) : \E d \in 1..Len(parsed) : InSeq(ads[i], parsed[d].ads)

DeepFailuresAbsorbed(ret, parsed) ==
    /\ ret.ok
    /\ ret.val.error = None
    /\ FromParsed(ret.val.ads, parsed)

C5_DeeperFailuresAbsorbed ==
    (Running /\ parse_vast(CurXml).ok) =>
        /\ BlkUnwrapReturned => DeepFailuresAbsorbed(Unwrap(blk.ret), blk.parsed)
        /\ \A t \in TaskIds :
               AsyncUnwrapReturned(t) => DeepFailuresAbsorbed(Unwrap(tasks[t].ret), tasks[t].parsed)

FetchFailed(u) == ~IsSome(content[u])

ParseFailed(u) == IsSome(content[u]) /\ ~parse_vast(Unwrap(content[u])).ok

\* the blocking resolve has returned ads although one hop failed to fetch and
\* another fetched a text that does not parse
C5_Witness ==
    /\ BlkUnwrapReturned
    /\ parse_vast(CurXml).ok
    /\ \E u \in URIs : InSeq(u, blk.fetched) /\ FetchFailed(u)
    /\ \E u \in URIs : InSeq(u, blk.fetched) /\ ParseFailed(u)
    /\ Unwrap(blk.ret).val.ads # <<>>

(***************************************************************************)
(* C6: stitch and the tracking collection, in both modes, never hand the   *)
(* caller an error of a non-root hop: when the root parses the call        *)
(* succeeds even if a fetched document fails to parse or a fetch fails.    *)
(***************************************************************************)
C6_NonRootErrorsAbsorbed ==
    \A i \in {3, 4} :
        (i <= Len(Program) /\ IsSome(results[i]) /\ parse_vast(Program[i].xml).ok)
            => Unwrap(results[i]).ok

(***************************************************************************)
(* C7: a wrapper Ad of the root whose fetch fails does not affect the      *)
(* other Ads: the Inline ads resolve returns are those it returns for the  *)
(* root without that Ad, in both modes.                                    *)
(***************************************************************************)
Inlines(ret) == SelectSeq(ret.val.ads, IsInlineAd)

C7_FailingWrapperAdIsolated ==
    (~Running /\ IsSome(alt)) =>
        /\ Inlines(Unwrap(results[1])) = Inlines(Unwrap(results[5]))
        /\ Inlines(Unwrap(results[2])) = Inlines(Unwrap(results[6]))

\* the failing wrapper Ad comes first in a root of several Ads, and resolve returned
\* the Inline ad of a hop behind a later wrapper Ad, with and without it
C7_Witness ==
    /\ ~Running
    /\ IsSome(alt)
    /\ Len(root.ads) >= 2
    /\ 1 \in FailingWrapperAds(root, content)
    /\ Unwrap(alt).ads = Tail(root.ads)
    /\ Len(Inlines(Unwrap(results[2]))) >= 1
    /\ \E i \in 1..Len(Unwrap(results[2]).val.ads) : Unwrap(Unwrap(results[2]).val.ads[i].id) > 10
    /\ Inlines(Unwrap(results[6])) = Inlines(Unwrap(results[2]))

(***************************************************************************)
(* C8: when the root parsed and the traversal found no Inline ad, resolve  *)
(* returns, in both modes, the most recently parsed Document verbatim: its *)
(* own version, ads and error, not a synthetic error Document.             *)
(***************************************************************************)
NoInlineFound(parsed) == \A d \in 1..Len(parsed) : ~HasInline(parsed[d].ads)

ReturnsLastParsed(ret, parsed) == ret = Ok(parsed[Len(parsed)])

C8_FallbackIsLastParsedVerbatim ==
    (Running /\ parse_vast(CurXml).ok) =>
        /\ (BlkUnwrapReturned /\ NoInlineFound(blk.parsed))
               => ReturnsLastParsed(Unwrap(blk.ret), blk.parsed)
        /\ \A t \in TaskIds :
               (AsyncUnwrapReturned(t) /\ NoInlineFound(tasks[t].parsed))
                   => ReturnsLastParsed(Unwrap(tasks[t].ret), tasks[t].parsed)

(***************************************************************************)
(* C9: whenever an Inline ad is reached, the Document resolve returns, in  *)
(* both modes, holds terminal ads only (every Ad carries Inline content),  *)
(* has the root's version and error None.                                  *)
(***************************************************************************)
InlineReached(parsed) == \E d \in 1..Len(parsed) : HasInline(parsed[d].ads)

TerminalAdsOnly(ret, xml) ==
    /\ ret.ok
    /\ AllInline(ret.val.ads)
    /\ ret.val.version = parse_vast(xml).val.version
    /\ ret.val.error = None

C9_InlineResultIsTerminalOnly ==
    (Running /\ parse_vast(CurXml).ok) =>
        /\ (BlkUnwrapReturned /\ InlineReached(blk.parsed))
               => TerminalAdsOnly(Unwrap(blk.ret), CurXml)
        /\ \A t \in TaskIds :
               (AsyncUnwrapReturned(t) /\ InlineReached(tasks[t].parsed))
                   => TerminalAdsOnly(Unwrap(tasks[t].ret), CurXml)

(***************************************************************************)
(* C10: on a redirect graph that is a tree (no URI reachable by more than  *)
(* one path, no cycle) the blocking and the suspending resolve return the  *)
(* same Document: same version, same ads in the same order, same error.    *)
(***************************************************************************)
\* the documents the traversal can see: the root (location 0) and the texts
\* served at the URIs reachable from it
Locations == {0} \cup Reach(content, Refs(root), MaxChain)

TextAt(loc) ==
    IF loc = 0 THEN root ELSE IF IsSome(content[loc]) THEN Unwrap(content[loc]) ELSE NoRootText

\* the wrappers, over all those documents, that point at URI u
PointersTo(u) ==
    {p \in Locations \X (1..MaxAds) :
        /\ p[2] <= Len(TextAt(p[1]).ads)
        /\ IsSome(TextAt(p[1]).ads[p[2]].wrapper)
        /\ Unwrap(TextAt(p[1]).ads[p[2]].wrapper).vast_ad_tag_uri = u}

IsTree == \A u \in URIs : Cardinality(PointersTo(u)) <= 1

C10_ModesAgreeOnTrees ==
    (IsTree /\ IsSome(results[1]) /\ IsSome(results[2])) => results[1] = results[2]

(***************************************************************************)
(* C11: the resolver, in both modes, never parses a document at depth      *)
(* MAX_WRAPPER_DEPTH or deeper (the root is depth 0): such an item is      *)
(* dropped, gives the result no ads and is not the fallback document.      *)
(***************************************************************************)
AllBelowMaxDepth(depths) == \A i \in 1..Len(depths) : depths[i] < MAX_WRAPPER_DEPTH

\* the result is made of the documents parsed below the limit only: its ads are
\* theirs and, when the root parsed, it is not the synthetic depth document
OnlyFromParsed(ret, parsed) ==
    /\ FromParsed(ret.val.ads, parsed)
    /\ parsed # <<>> => ret.val # MaxDepthVast

C11_NothingParsedAtMaxDepth ==
    /\ AllBelowMaxDepth(blk.parsed_at)
    /\ BlkUnwrapReturned => OnlyFromParsed(Unwrap(blk.ret), blk.parsed)
    /\ \A t \in TaskIds :
           /\ AllBelowMaxDepth(tasks[t].parsed_at)
           /\ IsSome(tasks[t].last_valid_vast)
                  => InSeq(Unwrap(tasks[t].last_valid_vast), tasks[t].parsed)
           /\ AsyncUnwrapReturned(t) => OnlyFromParsed(Unwrap(tasks[t].ret), tasks[t].parsed)

\* both modes fetched the document at depth MAX_WRAPPER_DEPTH, which parses and
\* holds an Inline ad, and returned without it
C11_Witness ==
    /\ Running
    /\ CurXml = root
    /\ IsSome(results[1])
    /\ AsyncUnwrapReturned(1)
    /\ ChainEnd(root, 0, {}).k = MAX_WRAPPER_DEPTH
    /\ InSeq(MAX_WRAPPER_DEPTH, tasks[1].fetched)
    /\ Len(tasks[1].parsed) = MAX_WRAPPER_DEPTH
    /\ ~HasInline(Unwrap(results[1]).val.ads)
    /\ ~HasInline(Unwrap(tasks[1].ret).val.ads)

(***************************************************************************)
(* C12: the caller of stitch (both modes) can tell three outcomes apart: a *)
(* root that fails to parse gives a failed call; a root that parses with   *)
(* no Inline within reach gives a successful output with no Inline ad; a   *)
(* root from which an Inline is reachable gives a successful output that   *)
(* holds an Inline ad.                                                     *)
(***************************************************************************)
\* the documents the resolver can reach below the depth limit
LocationsInDepth == {0} \cup Reach(content, Refs(root), MAX_WRAPPER_DEPTH - 2)

InlineReachable ==
    \E loc \in LocationsInDepth :
        parse_vast(TextAt(loc)).ok /\ HasInline(parse_vast(TextAt(loc)).val.ads)

\* the number of InLine elements of a serialized document
InlineCount(out) ==
    Cardinality({i \in 1..Len(out) : out[i].kind = "Start" /\ out[i].name = "InLine"})

OutcomeMatchesInput(r) ==
    /\ ~parse_vast(root).ok => ~r.ok
    /\ (parse_vast(root).ok /\ ~InlineReachable) => (r.ok /\ InlineCount(r.val) = 0)
    /\ (parse_vast(root).ok /\ InlineReachable) => (r.ok /\ InlineCount(r.val) > 0)

C12_StitchOutcomesDistinct ==
    \A i \in {3, 4} : IsSome(results[i]) => OutcomeMatchesInput(Unwrap(results[i]))


(***************************************************************************)
(* C13: concurrent suspending calls                                        *)
(***************************************************************************)
\* the result the function task t ran returns when it runs alone on the root
AloneResult(t) == IF tasks[t].caller = "api" THEN results[2] ELSE results[4]

\* task t was started concurrently and has returned
ConcReturned(t) == callIx > Len(Program) /\ IsSome(results[6 + t])

\* task t has returned from a run that got through unwrap_vast_async
ConcUnwrapped(t) ==
    /\ ConcReturned(t)
    /\ tasks[t].caller = "stitch" => Unwrap(results[6 + t]).ok

\* C13: two suspending calls polled in any interleaving of their fetch await
\* points do not interfere: each returns exactly the result the same function
\* returns alone on the same input, and the calls that ran unwrap_vast_async
\* made the same fetches in the same order and visited the same URIs, so a
\* URI one call has visited is still fetched by the other.
C13_ConcurrentCallsIndependent ==
    /\ \A t \in AllTasks : ConcReturned(t) => results[6 + t] = AloneResult(t)
    /\ \A t, u \in AllTasks :
           ConcUnwrapped(t) /\ ConcUnwrapped(u) =>
               /\ tasks[t].fetched = tasks[u].fetched
               /\ tasks[t].visited_urls = tasks[u].visited_urls

\* both calls are suspended in a fetch, the second on a URI the first has
\* already visited and fetched
C13_Witness ==
    /\ callIx > Len(Program)
    /\ tasks[1].pc = "unwrap_await"
    /\ tasks[2].pc = "unwrap_await"
    /\ tasks[2].uri \in tasks[1].visited_urls
    /\ tasks[2].uri # tasks[1].uri
    /\ Len(tasks[1].fetched) >= 2
    /\ IsSome(content[tasks[2].uri])

(***************************************************************************)
(* C14..C17: the merge of the bundle into the Inline ads                   *)
(***************************************************************************)
\* the run r (the blocking thread or a task) has returned from a stitch that merged
Stitched(r) == IsSome(r.stitched) /\ r.pc = "idle"

AdsBefore(r) == Unwrap(r.unwrapped).val.ads

AdsAfter(r) == Unwrap(r.stitched).val.ads

\* P(before, after, r) holds of every Inline of the merged document of run r
ForEachInline(r, P(_, _, _)) ==
    Stitched(r) =>
        /\ Len(AdsAfter(r)) = Len(AdsBefore(r))
        /\ \A i \in 1..Len(AdsBefore(r)) :
               IsSome(AdsBefore(r)[i].inline) =>
                   /\ IsSome(AdsAfter(r)[i].inline)
                   /\ P(Unwrap(AdsBefore(r)[i].inline), Unwrap(AdsAfter(r)[i].inline), r)

\* the impressions of the wrappers in the order the collection met them
HopImpressions(r) == Concat([h \in 1..Len(r.hops) |-> r.hops[h].impressions])

ImpressionsMerged(before, after, r) ==
    after.impressions = before.impressions \o HopImpressions(r)

\* the root is W1, which points to W2 at URI 1, which points to an Inline at URI 2
TwoWrappersThenInline ==
    /\ Len(root.ads) = 1 /\ ~IsSome(root.ads[1].inline) /\ Refs(root) = {1}
    /\ IsSome(content[1]) /\ parse_vast(Unwrap(content[1])).ok
    /\ Len(Unwrap(content[1]).ads) = 1 /\ ~IsSome(Unwrap(content[1]).ads[1].inline)
    /\ Refs(Unwrap(content[1])) = {2}
    /\ IsSome(content[2]) /\ parse_vast(Unwrap(content[2])).ok
    /\ Len(Unwrap(content[2]).ads) = 1 /\ IsSome(Unwrap(content[2]).ads[1].inline)

OwnThenW1ThenW2(r) ==
    Stitched(r) /\ TwoWrappersThenInline =>
        /\ Len(AdsAfter(r)) = 1
        /\ Unwrap(AdsAfter(r)[1].inline).impressions =
               Unwrap(Unwrap(content[2]).ads[1].inline).impressions
                   \o Unwrap(root.ads[1].wrapper).impressions
                   \o Unwrap(Unwrap(content[1]).ads[1].wrapper).impressions
        /\ Len(Unwrap(AdsAfter(r)[1].inline).impressions) = 3

\* C14: after stitch, every Inline ad's impression list is its original
\* impressions in their order followed by every impression of the bundle in the
\* order the hops were visited; for W1 -> W2 -> Inline with one impression each
\* the Inline ends with exactly 3 impressions: its own, W1's, W2's.
C14_ImpressionsAppendedInOrder ==
    /\ ForEachInline(blk, ImpressionsMerged) /\ OwnThenW1ThenW2(blk)
    /\ \A t \in AllTasks : ForEachInline(tasks[t], ImpressionsMerged) /\ OwnThenW1ThenW2(tasks[t])

C14_Witness ==
    /\ TwoWrappersThenInline
    /\ Stitched(blk) /\ Stitched(tasks[1])
    /\ Len(blk.hops) = 2 /\ Len(tasks[1].hops) = 2

\* the tracking events of the Linear creatives of x (a Wrapper or an InLine)
LinearEvents(x) ==
    Concat([c \in 1..Len(x.creatives) |->
               IF IsSome(x.creatives[c].linear)
               THEN Unwrap(x.creatives[c].linear).tracking_events
               ELSE <<>>])

\* the tracking events of the wrappers in the order the collection met them
HopEvents(r) == Concat([h \in 1..Len(r.hops) |-> LinearEvents(r.hops[h])])

WithTag(events, tag) == LET Is(e) == e.event = tag IN SelectSeq(events, Is)

Tags(events) == {events[i].event : i \in 1..Len(events)}

\* the Linear creatives of the Inline kept their events and gained the bundle's
EventsMerged(before, after, r) ==
    /\ Len(after.creatives) = Len(before.creatives)
    /\ \A c \in 1..Len(before.creatives) :
           IsSome(before.creatives[c].linear) =>
               /\ IsSome(after.creatives[c].linear)
               /\ LET old == Unwrap(before.creatives[c].linear).tracking_events
                      new == Unwrap(after.creatives[c].linear).tracking_events
                      added == SubSeq(new, Len(old) + 1, Len(new))
                  IN  /\ Len(new) >= Len(old)
                      /\ SubSeq(new, 1, Len(old)) = old
                      /\ Len(added) = Len(HopEvents(r))
                      /\ \A tag \in Tags(added) \cup Tags(HopEvents(r)) :
                             WithTag(added, tag) = WithTag(HopEvents(r), tag)

\* C15: after stitch, every Linear creative of every Inline ad keeps its original
\* TrackingEvents as a prefix and gains one appended TrackingEvent per (tag, url)
\* pair of the bundle, without deduplication: as many as the tracking events
\* collected from all wrapper hops, and under each tag the URLs in collection order.
C15_EventsAppendedNotDeduplicated ==
    /\ ForEachInline(blk, EventsMerged)
    /\ \A t \in AllTasks : ForEachInline(tasks[t], EventsMerged)

\* an Inline whose Linear already has the event ("start", 7) that both wrappers
\* carry, and a bundle with two tags
C15_Witness ==
    /\ TwoWrappersThenInline
    /\ Stitched(blk)
    /\ Cardinality(Tags(HopEvents(blk))) = 2
    /\ LET old == LinearEvents(Unwrap(AdsBefore(blk)[1].inline))
       IN  /\ old # <<>>
           /\ Len(WithTag(HopEvents(blk), old[1].event)) = 2
           /\ \A e \in {1, 2} : WithTag(HopEvents(blk), old[1].event)[e] = old[1]

\* the error URLs of the wrappers in the order the collection met them
HopErrors(r) == Concat([h \in 1..Len(r.hops) |-> r.hops[h].error])

ErrorMerged(before, after, r) ==
    /\ ~IsSome(before.error) /\ HopErrors(r) # <<>> => after.error = Some(HopErrors(r)[1])
    /\ IsSome(before.error) => after.error = before.error
    /\ ~IsSome(before.error) /\ HopErrors(r) = <<>> => ~IsSome(after.error)

\* C16: after stitch, an Inline ad that had no error URL and a non-empty bundle
\* error list has the first bundle error URL in collection order; an Inline that
\* had an error URL keeps it; with an empty bundle error list the field stays absent.
C16_FirstBundleErrorFillsGap ==
    /\ ForEachInline(blk, ErrorMerged)
    /\ \A t \in AllTasks : ForEachInline(tasks[t], ErrorMerged)

\* two wrappers with different error URLs and an Inline without one
C16_Witness ==
    /\ Stitched(blk)
    /\ Len(HopErrors(blk)) = 2
    /\ HopErrors(blk)[1] # HopErrors(blk)[2]
    /\ Len(AdsBefore(blk)) = 1
    /\ IsSome(AdsBefore(blk)[1].inline)
    /\ ~IsSome(Unwrap(AdsBefore(blk)[1].inline).error)
    /\ Unwrap(AdsAfter(blk)[1].inline).error = Some(HopErrors(blk)[1])

\* the URLs in field f of the VideoClicks of the Linear creatives of wrapper x
LinearClicks(x, f) ==
    Concat([c \in 1..Len(x.creatives) |->
               IF IsSome(x.creatives[c].linear)
                  /\ IsSome(Unwrap(x.creatives[c].linear).video_clicks)
               THEN Unwrap(Unwrap(x.creatives[c].linear).video_clicks)[f]
               ELSE <<>>])

\* the same over the wrappers in the order the collection met them
HopClicks(r, f) == Concat([h \in 1..Len(r.hops) |-> LinearClicks(r.hops[h], f)])

ClicksMerged(before, after, r) ==
    /\ Len(after.creatives) = Len(before.creatives)
    /\ \A c \in 1..Len(before.creatives) :
           IsSome(before.creatives[c].linear) =>
               /\ IsSome(after.creatives[c].linear)
               /\ LET old == Unwrap(before.creatives[c].linear).video_clicks
                      new == Unwrap(after.creatives[c].linear).video_clicks
                      tracking == HopClicks(r, "click_tracking")
                      custom == HopClicks(r, "custom_click")
                  IN  /\ IsSome(old) =>
                             /\ IsSome(new)
                             /\ Unwrap(new).click_through = Unwrap(old).click_through
                             /\ Unwrap(new).click_tracking = Unwrap(old).click_tracking \o tracking
                             /\ Unwrap(new).custom_click = Unwrap(old).custom_click \o custom
                      /\ ~IsSome(old) /\ (tracking # <<>> \/ custom # <<>>) =>
                             new = Some(VideoClicks(None, tracking, custom))
                      /\ ~IsSome(old) /\ tracking = <<>> /\ custom = <<>> => ~IsSome(new)

\* C17: after stitch, a Linear creative of an Inline ad that had VideoClicks
\* keeps its click_through and has the bundle's click_tracking and custom_click
\* lists appended to its own; one that had none gets, when the bundle has a
\* click-tracking or custom-click URL, a new VideoClicks with click_through = None
\* and exactly the bundle's lists; otherwise it still has none.
C17_VideoClicksMerged ==
    /\ ForEachInline(blk, ClicksMerged)
    /\ \A t \in AllTasks : ForEachInline(tasks[t], ClicksMerged)

\* a Linear without VideoClicks under two wrappers that both carry click URLs
C17_Witness ==
    /\ Stitched(tasks[1])
    /\ Len(HopClicks(tasks[1], "click_tracking")) = 2
    /\ Len(AdsBefore(tasks[1])) = 1
    /\ IsSome(AdsBefore(tasks[1])[1].inline)
    /\ LET before == Unwrap(AdsBefore(tasks[1])[1].inline)
           after == Unwrap(AdsAfter(tasks[1])[1].inline)
       IN  /\ Len(before.creatives) = 1
           /\ IsSome(before.creatives[1].linear)
           /\ ~IsSome(Unwrap(before.creatives[1].linear).video_clicks)
           /\ IsSome(Unwrap(after.creatives[1].linear).video_clicks)

(***************************************************************************)
(* C18: the collection of the bundle                                       *)
(***************************************************************************)
\* run r has finished collect_wrapper_tracking with a bundle
Collected(r) == r.pc = "collect_ret" /\ IsSome(r.ret) /\ Unwrap(r.ret).ok

\* the Wrapper Ads of the documents reachable from the root, by location and position
ReachableWrappers ==
    {p \in Locations \X (1..MaxAds) :
        /\ p[2] <= Len(TextAt(p[1]).ads)
        /\ IsSome(TextAt(p[1]).ads[p[2]].wrapper)}

WrapperOf(p) == Unwrap(TextAt(p[1]).ads[p[2]].wrapper)

\* the Wrappers of a list of Ads, in order
Wrappers(ads) == Concat([i \in 1..Len(ads) |-> ads[i].wrapper])

\* the bundle of run r is the concatenation over the wrappers met, in that order
BundleIsHopsInOrder(r) ==
    Collected(r) =>
        LET bundle == Unwrap(r.ret).val
        IN  /\ {r.hops[h] : h \in 1..Len(r.hops)} = {WrapperOf(p) : p \in ReachableWrappers}
            /\ Len(r.hops) = Cardinality(ReachableWrappers)
            /\ bundle.impressions = HopImpressions(r)
            /\ bundle.error_urls = HopErrors(r)
            /\ DOMAIN bundle.tracking_events = Tags(HopEvents(r))
            /\ \A tag \in Tags(HopEvents(r)) :
                   LET es == WithTag(HopEvents(r), tag)
                   IN  bundle.tracking_events[tag] = [i \in 1..Len(es) |-> es[i].url]
            /\ bundle.click_tracking = HopClicks(r, "click_tracking")
            /\ bundle.custom_click = HopClicks(r, "custom_click")

\* C18: the collection accumulates the tracking of every Wrapper hop reachable
\* from the root, in visitation order: impressions, error URLs, per-tag URL lists
\* and click lists are the concatenation, in the order the hops are visited, of
\* each wrapper's own lists (the suspending collection visits the wrappers
\* document by document in the order the documents are parsed); a wrapper with
\* no creatives contributes only its impressions and error.
C18_BundleAccumulatesEveryHopInOrder ==
    /\ BundleIsHopsInOrder(blk)
    /\ \A t \in AllTasks :
           /\ BundleIsHopsInOrder(tasks[t])
           /\ Collected(tasks[t]) =>
                  tasks[t].hops =
                      Concat([d \in 1..Len(tasks[t].parsed) |-> Wrappers(tasks[t].parsed[d].ads)])

\* two wrappers were met, the first with an error and no creatives, the second
\* with tracking events
C18_Witness ==
    /\ Collected(blk)
    /\ Len(blk.hops) = 2
    /\ blk.hops[1].creatives = <<>> /\ IsSome(blk.hops[1].error)
    /\ LinearEvents(blk.hops[2]) # <<>>
    /\ Unwrap(blk.ret).val.impressions = blk.hops[1].impressions \o blk.hops[2].impressions

(***************************************************************************)
(* C19, C20: parse_vast                                                    *)
(***************************************************************************)
\* C19: every Document parse returns successfully has a non-empty version, and
\* parse fails when the input has no root VAST start tag (empty input, another
\* root element, a self-closing root).
C19_ParsedVersionNonEmpty ==
    IsSome(results[1]) =>
        /\ Unwrap(results[1]).ok => Unwrap(results[1]).val.version # ""
        /\ ~root.root => ~Unwrap(results[1]).ok

\* C20: parse of a text whose root VAST start tag has no version attribute, or
\* an empty one, fails with MissingField, whatever follows the start tag: the
\* check comes before any Ad is parsed.
C20_NoVersionIsMissingField ==
    IsSome(results[1]) /\ root.root /\ root.version = "" =>
        results[1] = Some(Err("MissingField"))

\* the root start tag has no version and the Ads after it are not well-formed
C20_Witness ==
    /\ IsSome(results[1])
    /\ root.root /\ root.version = ""
    /\ ~root.wellformed /\ root.ads # <<>>

(***************************************************************************)
(* parser.rs on the markup of a text.  Every function reads the events     *)
(* that are left (evs) and returns, with its value, the events it has not  *)
(* consumed (rest).  The end of evs is Event::Eof; an event of kind "Bad"  *)
(* is markup the Reader rejects.                                           *)
(***************************************************************************)
Done(val, rest) == [ok |-> TRUE, val |-> val, rest |-> rest]

Fail(e) == [ok |-> FALSE, val |-> e, rest |-> <<>>]

\* parser.rs:305-342, called with depth 0 just after the start tag of name
RECURSIVE skip_element(_, _, _)
skip_element(evs, name, depth) ==
    IF evs = <<>> THEN Fail("Other")
    ELSE LET e == Head(evs)
         IN  CASE e.kind = "Start" ->
                     IF e.name = name /\ depth = 0
                     THEN skip_element(Tail(evs), name, depth + 1)
                     ELSE IF depth > 0
                     THEN skip_element(Tail(evs), name, depth + 1)
                     ELSE skip_element(Tail(evs), name, depth)
               [] e.kind = "End" ->
                     IF e.name = name
                     THEN IF depth = 0 THEN Done(<<>>, Tail(evs))
                          ELSE IF depth - 1 = 0 THEN Done(<<>>, Tail(evs))
                          ELSE skip_element(Tail(evs), name, depth - 1)
                     ELSE IF depth > 0
                     THEN skip_element(Tail(evs), name, depth - 1)
                     ELSE skip_element(Tail(evs), name, depth)
               [] e.kind = "Bad" -> Fail("XmlParseError")
               [] OTHER -> skip_element(Tail(evs), name, depth)

\* BytesText::unescape (parser.rs:284): "&amp;" stands for the character "&",
\* an "&" that starts no entity is an error
unescape(text) ==
    IF \E i \in 1..Len(text) : text[i] = "&" THEN Err("XmlParseError")
    ELSE Ok([i \in 1..Len(text) |-> IF text[i] = "&amp;" THEN "&" ELSE text[i]])

\* a start tag inside a text element is an error
RECURSIVE read_text_element_NoChildren(_, _)
read_text_element_NoChildren(evs, text) ==
    IF evs = <<>> THEN Fail("Other")
    ELSE LET e == Head(evs)
         IN  CASE e.kind = "Text" ->
                     IF unescape(e.text).ok
                     THEN read_text_element_NoChildren(Tail(evs), unescape(e.text).val)
                     ELSE Fail("XmlParseError")
               [] e.kind = "CData" -> read_text_element_NoChildren(Tail(evs), e.text)
               [] e.kind = "End" -> Done(text, Tail(evs))
               [] e.kind \in {"Bad", "Start"} -> Fail("XmlParseError")
               [] OTHER -> read_text_element_NoChildren(Tail(evs), text)

\* parser.rs:277-302, text being the local variable of that name
RECURSIVE read_text_element(_, _)
read_text_element(evs, text) ==
    IF evs = <<>> THEN Fail("Other")
    ELSE LET e == Head(evs)
         IN  CASE e.kind = "Text" ->
                     IF unescape(e.text).ok
                     THEN read_text_element(Tail(evs), unescape(e.text).val)
                     ELSE Fail("XmlParseError")
               [] e.kind = "CData" -> read_text_element(Tail(evs), e.text)
               [] e.kind = "End" -> Done(text, Tail(evs))
               [] e.kind = "Bad" -> Fail("XmlParseError")
               [] OTHER -> read_text_element(Tail(evs), text)

Range(f) == {f[i] : i \in DOMAIN f}

\* the value of the attribute key of a start tag, as it is written
Attribute(attrs, key) ==
    IF \E i \in 1..Len(attrs) : attrs[i][1] = key
    THEN Some(attrs[CHOOSE i \in 1..Len(attrs) : attrs[i][1] = key][2])
    ELSE None

DecimalDigits == <<"0", "1", "2", "3", "4", "5", "6", "7", "8", "9">>

DigitValue(c) == CHOOSE d \in 0..9 : DecimalDigits[d + 1] = c

\* u32::MAX, 4294967295, in decimal digits
U32Max == <<"4", "2", "9", "4", "9", "6", "7", "2", "9", "5">>

RECURSIVE StripZeros(_)
StripZeros(digits) ==
    IF Len(digits) > 1 /\ Head(digits) = "0" THEN StripZeros(Tail(digits)) ELSE digits

\* n > m, for two numbers in decimal digits without leading zeros
Exceeds(n, m) ==
    \/ Len(n) > Len(m)
    \/ /\ Len(n) = Len(m)
       /\ \E i \in 1..Len(n) :
             /\ \A j \in 1..(i - 1) : n[j] = m[j]
             /\ DigitValue(n[i]) > DigitValue(m[i])

\* value.parse::<u32>() (parser.rs:95-101, 518-524, 672-700): decimal digits
\* after an optional "+", at most u32::MAX.  A u32 is kept in decimal digits
\* without leading zeros, which is also how the serializer writes it.
parse_u32(value) ==
    LET digits == IF value # <<>> /\ Head(value) = "+" THEN Tail(value) ELSE value
    IN  IF digits = <<>> \/ \E i \in 1..Len(digits) : digits[i] \notin Range(DecimalDigits)
        THEN Err("ParseIntError")
        ELSE IF Exceeds(StripZeros(digits), U32Max) THEN Err("ParseIntError")
        ELSE Ok(StripZeros(digits))

\* a numeric attribute that does not parse is taken for 0
NumericAttribute_DefaultZero(attrs, key) ==
    IF IsSome(Attribute(attrs, key))
    THEN IF parse_u32(Unwrap(Attribute(attrs, key))).ok
         THEN Some(parse_u32(Unwrap(Attribute(attrs, key))).val)
         ELSE Some(<<"0">>)
    ELSE None

\* if let Ok(n) = value.parse::<u32>() { field = Some(n) }
NumericAttribute(attrs, key) ==
    IF IsSome(Attribute(attrs, key)) /\ parse_u32(Unwrap(Attribute(attrs, key))).ok
    THEN Some(parse_u32(Unwrap(Attribute(attrs, key))).val)
    ELSE None

\* the element of a one-element set
Strict(S) == CHOOSE v \in S : TRUE

\* result?: an Err is returned to the caller, an Ok value is worked on
Then(result, Continue(_)) ==
    Strict({IF r.ok THEN Continue(r) ELSE r : r \in {result}})

RECURSIVE parse_list(_, _, _, _)
RECURSIVE parse_video_clicks(_, _)
RECURSIVE parse_linear(_, _)
RECURSIVE parse_creative(_, _)
RECURSIVE parse_wrapper_element(_, _)
RECURSIVE parse_inline_element(_, _)
RECURSIVE parse_ad_element(_, _)
RECURSIVE parse_ads(_, _)

\* parser.rs:716-755
parse_video_clicks(evs, video_clicks) ==
    IF evs = <<>> THEN Fail("Other")
    ELSE LET e == Head(evs)
             text == read_text_element(Tail(evs), <<>>)
             skip == skip_element(Tail(evs), e.name, 0)
         IN  CASE e.kind = "Start" ->
                   CASE e.name = "ClickThrough" ->
                          Then(text, LAMBDA r :
                              parse_video_clicks(r.rest,
                                  [video_clicks EXCEPT !.click_through = Some(r.val)]))
                     [] e.name = "ClickTracking" ->
                          Then(text, LAMBDA r :
                              parse_video_clicks(r.rest,
                                  [video_clicks EXCEPT !.click_tracking = Append(@, r.val)]))
                     [] e.name = "CustomClick" ->
                          Then(text, LAMBDA r :
                              parse_video_clicks(r.rest,
                                  [video_clicks EXCEPT !.custom_click = Append(@, r.val)]))
                     [] OTHER ->
                          Then(skip, LAMBDA r :
                              parse_video_clicks(r.rest, video_clicks))
               [] e.kind = "End" /\ e.name = "VideoClicks" -> Done(video_clicks, Tail(evs))
               [] e.kind = "Bad" -> Fail("XmlParseError")
               [] OTHER -> parse_video_clicks(Tail(evs), video_clicks)

\* parser.rs:647-713 (MediaFile), 782-803 (Tracking), 369-390 (Impression),
\* 450-472 (Extension): the attributes of the start tag, then the text
parse_text_item(evs, start) ==
    Then(read_text_element(evs, <<>>), LAMBDA r :
        CASE start.name = "MediaFile" ->
                 Done(MediaFile(r.val, NumericAttribute(start.attrs, "width"),
                                NumericAttribute(start.attrs, "height"),
                                NumericAttribute(start.attrs, "bitrate")), r.rest)
          [] start.name = "Tracking" ->
                 Done(TrackingEvent(IF IsSome(Attribute(start.attrs, "event"))
                                    THEN Unwrap(Attribute(start.attrs, "event")) ELSE "",
                                    r.val), r.rest)
          [] OTHER -> Done(r.val, r.rest))

\* parser.rs:577-620
parse_linear(evs, linear) ==
    IF evs = <<>> THEN Fail("Other")
    ELSE LET e == Head(evs)
             text == read_text_element(Tail(evs), <<>>)
             skip == skip_element(Tail(evs), e.name, 0)
             media_files == parse_list(Tail(evs), "MediaFiles", "MediaFile", <<>>)
             tracking_events == parse_list(Tail(evs), "TrackingEvents", "Tracking", <<>>)
             video_clicks == parse_video_clicks(Tail(evs), VideoClicks(None, <<>>, <<>>))
         IN  CASE e.kind = "Start" ->
                   CASE e.name = "Duration" ->
                          Then(text, LAMBDA r :
                              parse_linear(r.rest, linear))
                     [] e.name = "MediaFiles" ->
                          Then(media_files, LAMBDA r :
                              parse_linear(r.rest, [linear EXCEPT !.media_files = r.val]))
                     [] e.name = "VideoClicks" ->
                          Then(video_clicks, LAMBDA r :
                              parse_linear(r.rest,
                                  [linear EXCEPT !.video_clicks = Some(r.val)]))
                     [] e.name = "TrackingEvents" ->
                          Then(tracking_events, LAMBDA r :
                              parse_linear(r.rest, [linear EXCEPT !.tracking_events = r.val]))
                     [] OTHER ->
                          Then(skip, LAMBDA r :
                              parse_linear(r.rest, linear))
               [] e.kind = "End" /\ e.name = "Linear" -> Done(linear, Tail(evs))
               [] e.kind = "Bad" -> Fail("XmlParseError")
               [] OTHER -> parse_linear(Tail(evs), linear)

\* parser.rs:499-574, creative holding what the attributes of the start tag
\* gave; CompanionAds and NonLinearAds are skipped and left empty (806-829)
parse_creative(evs, creative) ==
    IF evs = <<>> THEN Fail("Other")
    ELSE LET e == Head(evs)
             skip == skip_element(Tail(evs), e.name, 0)
             linear == parse_linear(Tail(evs), Linear(<<>>, None))
         IN  CASE e.kind = "Start" ->
                   CASE e.name = "Linear" ->
                          Then(linear, LAMBDA r :
                              parse_creative(r.rest, [creative EXCEPT !.linear = Some(r.val)]))
                     [] e.name = "CompanionAds" ->
                          Then(skip, LAMBDA r :
                              parse_creative(r.rest,
                                  [creative EXCEPT !.companion_ads = Some(<<>>)]))
                     [] e.name = "NonLinearAds" ->
                          Then(skip, LAMBDA r :
                              parse_creative(r.rest,
                                  [creative EXCEPT !.non_linear_ads = Some(<<>>)]))
                     [] OTHER ->
                          Then(skip, LAMBDA r :
                              parse_creative(r.rest, creative))
               [] e.kind = "End" /\ e.name = "Creative" -> Done(creative, Tail(evs))
               [] e.kind = "Bad" -> Fail("XmlParseError")
               [] OTHER -> parse_creative(Tail(evs), creative)

\* parser.rs:475-496 (Creatives), 623-644 (MediaFiles), 758-779
\* (TrackingEvents), 426-447 (Extensions): the items of a list element
parse_list(evs, list, item, items) ==
    IF evs = <<>> THEN Fail("Other")
    ELSE LET e == Head(evs)
             parsed == IF item = "Creative"
                       THEN parse_creative(Tail(evs),
                                [Creative(None) EXCEPT
                                    !.sequence = NumericAttribute(e.attrs, "sequence")])
                       ELSE parse_text_item(Tail(evs), e)
         IN  CASE e.kind = "Start" /\ e.name = item ->
                   Then(parsed, LAMBDA r :
                       parse_list(r.rest, list, item, Append(items, r.val)))
               [] e.kind = "End" /\ e.name = list -> Done(items, Tail(evs))
               [] e.kind = "Bad" -> Fail("XmlParseError")
               [] OTHER -> parse_list(Tail(evs), list, item, items)

\* parser.rs:219-274
parse_wrapper_element(evs, wrapper) ==
    IF evs = <<>> THEN Fail("Other")
    ELSE LET e == Head(evs)
             text == read_text_element(Tail(evs), <<>>)
             skip == skip_element(Tail(evs), e.name, 0)
             extensions == parse_list(Tail(evs), "Extensions", "Extension", <<>>)
             creatives == parse_list(Tail(evs), "Creatives", "Creative", <<>>)
         IN  CASE e.kind = "Start" ->
                   CASE e.name = "AdSystem" ->
                          Then(text, LAMBDA r :
                              parse_wrapper_element(r.rest, wrapper))
                     [] e.name = "VASTAdTagURI" ->
                          Then(text, LAMBDA r :
                              parse_wrapper_element(r.rest,
                                  [wrapper EXCEPT !.vast_ad_tag_uri = r.val]))
                     [] e.name = "Impression" ->
                          Then(text, LAMBDA r :
                              parse_wrapper_element(r.rest,
                                  [wrapper EXCEPT !.impressions = Append(@, r.val)]))
                     [] e.name = "Error" ->
                          Then(text, LAMBDA r :
                              parse_wrapper_element(r.rest,
                                  [wrapper EXCEPT !.error = Some(r.val)]))
                     [] e.name = "Extensions" ->
                          Then(extensions, LAMBDA r :
                              parse_wrapper_element(r.rest, wrapper))
                     [] e.name = "Creatives" ->
                          Then(creatives, LAMBDA r :
                              parse_wrapper_element(r.rest,
                                  [wrapper EXCEPT !.creatives = r.val]))
                     [] OTHER ->
                          Then(skip, LAMBDA r :
                              parse_wrapper_element(r.rest, wrapper))
               [] e.kind = "End" /\ e.name = "Wrapper" -> Done(wrapper, Tail(evs))
               [] e.kind = "Bad" -> Fail("XmlParseError")
               [] OTHER -> parse_wrapper_element(Tail(evs), wrapper)

\* parser.rs:145-216; AdSystem, Description, Advertiser, Survey, Pricing and
\* Extensions are read the way the code reads them and their values dropped
parse_inline_element(evs, inline) ==
    IF evs = <<>> THEN Fail("Other")
    ELSE LET e == Head(evs)
             text == read_text_element(Tail(evs), <<>>)
             skip == skip_element(Tail(evs), e.name, 0)
             extensions == parse_list(Tail(evs), "Extensions", "Extension", <<>>)
             creatives == parse_list(Tail(evs), "Creatives", "Creative", <<>>)
         IN  CASE e.kind = "Start" ->
                   CASE e.name \in {"AdSystem", "Description", "Advertiser", "Survey",
                                    "Pricing"} ->
                          Then(text, LAMBDA r :
                              parse_inline_element(r.rest, inline))
                     [] e.name = "AdTitle" ->
                          Then(text, LAMBDA r :
                              parse_inline_element(r.rest, [inline EXCEPT !.ad_title = r.val]))
                     [] e.name = "Impression" ->
                          Then(text, LAMBDA r :
                              parse_inline_element(r.rest,
                                  [inline EXCEPT !.impressions = Append(@, r.val)]))
                     [] e.name = "Error" ->
                          Then(text, LAMBDA r :
                              parse_inline_element(r.rest,
                                  [inline EXCEPT !.error = Some(r.val)]))
                     [] e.name = "Extensions" ->
                          Then(extensions, LAMBDA r :
                              parse_inline_element(r.rest, inline))
                     [] e.name = "Creatives" ->
                          Then(creatives, LAMBDA r :
                              parse_inline_element(r.rest,
                                  [inline EXCEPT !.creatives = r.val]))
                     [] OTHER ->
                          Then(skip, LAMBDA r :
                              parse_inline_element(r.rest, inline))
               [] e.kind = "End" /\ e.name = "InLine" -> Done(inline, Tail(evs))
               [] e.kind = "Bad" -> Fail("XmlParseError")
               [] OTHER -> parse_inline_element(Tail(evs), inline)

\* parser.rs:77-142, ad holding what the attributes of the start tag gave
parse_ad_element(evs, ad) ==
    IF evs = <<>> THEN Fail("Other")
    ELSE LET e == Head(evs)
             skip == skip_element(Tail(evs), e.name, 0)
             inline == parse_inline_element(Tail(evs), InLine(<<>>))
             wrapper == parse_wrapper_element(Tail(evs), Wrapper(<<>>, <<>>))
         IN  CASE e.kind = "Start" ->
                   CASE e.name = "InLine" ->
                          Then(inline, LAMBDA r :
                              parse_ad_element(r.rest, [ad EXCEPT !.inline = Some(r.val)]))
                     [] e.name = "Wrapper" ->
                          Then(wrapper, LAMBDA r :
                              parse_ad_element(r.rest, [ad EXCEPT !.wrapper = Some(r.val)]))
                     [] OTHER ->
                          Then(skip, LAMBDA r :
                              parse_ad_element(r.rest, ad))
               [] e.kind = "End" /\ e.name = "Ad" -> Done(ad, Tail(evs))
               [] e.kind = "Bad" -> Fail("XmlParseError")
               [] OTHER -> parse_ad_element(Tail(evs), ad)

\* parser.rs:54-74
parse_ads(evs, ads) ==
    IF evs = <<>> THEN Done(ads, <<>>)
    ELSE LET e == Head(evs)
             ad == parse_ad_element(Tail(evs),
                       [id |-> Attribute(e.attrs, "id"),
                        sequence |-> NumericAttribute(e.attrs, "sequence"),
                        inline |-> None, wrapper |-> None])
         IN  CASE e.kind = "Start" /\ e.name = "Ad" ->
                   Then(ad, LAMBDA r :
                       parse_ads(r.rest, Append(ads, r.val)))
               [] e.kind = "End" /\ e.name = "VAST" -> Done(ads, Tail(evs))
               [] e.kind = "Bad" -> Fail("XmlParseError")
               [] OTHER -> parse_ads(Tail(evs), ads)

\* parser.rs:8-51 on the markup of the text
RECURSIVE parse_vast_events(_)
parse_vast_events(evs) ==
    IF evs = <<>> THEN Ok(Vast("", <<>>, None))
    ELSE LET e == Head(evs)
             version == IF IsSome(Attribute(e.attrs, "version"))
                        THEN Unwrap(Attribute(e.attrs, "version")) ELSE ""
             ads == parse_ads(Tail(evs), <<>>)
         IN  CASE e.kind = "Start" /\ e.name = "VAST" ->
                   IF version = "" THEN Err("MissingField")
                   ELSE Strict({IF r.ok THEN Ok(Vast(version, r.val, None)) ELSE Err(r.val) :
                                   r \in {ads}})
               [] e.kind = "Bad" -> Err("XmlParseError")
               [] OTHER -> parse_vast_events(Tail(evs))

(***************************************************************************)
(* The inputs of the parser's functions                                    *)
(***************************************************************************)
\* the longest generated content of an element, in events
MaxBody == 4

\* the element names still open after evs, innermost first; <<"#">> when an
\* end tag closes nothing or another element
RECURSIVE OpenAfter(_, _)
OpenAfter(evs, open) ==
    IF evs = <<>> \/ open = <<"#">> THEN open
    ELSE LET e == Head(evs)
         IN  CASE e.kind = "Start" -> OpenAfter(Tail(evs), <<e.name>> \o open)
               [] e.kind = "End" ->
                     IF open # <<>> /\ Head(open) = e.name
                     THEN OpenAfter(Tail(evs), Tail(open))
                     ELSE <<"#">>
               [] OTHER -> OpenAfter(Tail(evs), open)

\* start and end tags are balanced
Balanced(evs) == OpenAfter(evs, <<>>) = <<>>

\* the balanced contents of at most MaxBody events over the given events
Bodies(events) ==
    {b \in UNION {[1..n -> events] : n \in 0..MaxBody} : Balanced(b)}

\* what follows the element in its parent
Tails == {<<>>, <<Characters(<<"t">>), EndTag("Ad")>>}

\* skip_element is entered just after <N>
SkipCalls ==
    {[fn |-> "skip_element", name |-> "N", evs |-> b \o <<EndTag("N")>> \o t] :
        b \in Bodies({StartTag("N", <<>>), EndTag("N"), StartTag("a", <<>>), EndTag("a"),
                      Characters(<<"x">>)}),
        t \in Tails}

\* read_text_element is entered just after <AdTitle>
ReadTextCalls ==
    {[fn |-> "read_text_element", name |-> "AdTitle",
      evs |-> b \o <<EndTag("AdTitle")>> \o t] :
        b \in Bodies({Characters(<<"a">>), CDataSection(<<"c">>), StartTag("b", <<>>),
                      EndTag("b"), EmptyTag("br", <<>>)}),
        t \in Tails}

\* <name attrs>body</name>
Element(name, attrs, body) == <<StartTag(name, attrs)>> \o body \o <<EndTag(name)>>

\* an element the parser does not know, around body
Unknown(body) == Element("X", <<>>, body)

\* an unknown element that holds an element of its own name before body
UnknownNested(body) == Element("X", <<>>, Element("X", <<>>, <<>>) \o body)

\* the ways of putting an element inside an unknown element
Hidden(element) ==
    {Unknown(element), UnknownNested(element), Unknown(Unknown(element))}

\* what stands between the tags of a text element
TextContents ==
    {<<>>,
     <<Characters(<<"a">>)>>,
     <<CDataSection(<<"b">>)>>,
     <<Characters(<<"a">>), CDataSection(<<"b">>)>>,
     <<CDataSection(<<"b">>), Characters(<<"a">>)>>,
     <<Characters(<<"a", "&amp;", "b">>)>>,
     <<CDataSection(<<"a", "&", "b">>)>>,
     <<CDataSection(<<"&amp;">>)>>,
     <<EmptyTag("br", <<>>)>>,
     Element("b", <<>>, <<Characters(<<"x">>)>>) \o <<Characters(<<"y">>)>>,
     <<Characters(<<"y">>)>> \o Element("b", <<>>, <<Characters(<<"x">>)>>)}

\* the values of a numeric attribute
NumericValues ==
    {<<"7">>, <<"0", "7">>, <<"+", "7">>, <<"-", "7">>, <<"x">>, <<"7", "x">>, <<>>,
     <<"+">>, U32Max, <<"4", "2", "9", "4", "9", "6", "7", "2", "9", "6">>}

TextElements(name, attrs) == {Element(name, attrs, t) : t \in TextContents}

TrackingElement(event, url) ==
    Element("Tracking", <<<<"event", event>>>>, <<CDataSection(<<url>>)>>)

TrackingEventsElements ==
    {Element("TrackingEvents", <<>>, b) :
        b \in {<<>>,
               TrackingElement("start", "a"),
               TrackingElement("start", "a") \o TrackingElement("a&amp;b", "b")
                   \o TrackingElement("start", "a"),
               Element("Tracking", <<>>, <<Characters(<<"a">>)>>)}
              \cup Hidden(TrackingElement("start", "a"))}

MediaFilesElements ==
    {Element("MediaFiles", <<>>, b) :
        b \in {Element("MediaFile", <<<<"type", "video/mp4">>, <<key, v>>>>,
                       <<CDataSection(<<"a">>)>>) :
                   key \in {"width", "height", "bitrate"}, v \in NumericValues}
              \cup {Element("MediaFile",
                            <<<<"width", <<"7">>>>, <<"height", <<"x">>>>,
                              <<"bitrate", <<"0", "7">>>>>>,
                            <<CDataSection(<<"a">>)>>)}
              \cup Hidden(Element("MediaFile", <<>>, <<CDataSection(<<"a">>)>>))}

VideoClicksElements ==
    {Element("VideoClicks", <<>>, b) :
        b \in {Element("ClickThrough", <<>>, <<CDataSection(<<"a">>)>>)
                   \o Element("ClickTracking", <<>>, <<CDataSection(<<"b">>)>>)
                   \o Element("CustomClick", <<>>, <<CDataSection(<<"a">>)>>)}
              \cup Hidden(Element("ClickThrough", <<>>, <<CDataSection(<<"a">>)>>))}

LinearElements ==
    {Element("Linear", <<>>, b) :
        b \in {<<>>, Element("Duration", <<>>, <<Characters(<<"a">>)>>),
               <<EmptyTag("MediaFiles", <<>>)>>}
              \cup TrackingEventsElements \cup MediaFilesElements \cup VideoClicksElements
              \cup UNION {Hidden(t) : t \in TrackingEventsElements}}

PlainLinear ==
    Element("Linear", <<>>, Element("TrackingEvents", <<>>, TrackingElement("start", "a")))

CreativeElements ==
    {Element("Creative", <<>>, b) :
        b \in {<<>>, Unknown(<<>>), UnknownNested(<<>>),
               Element("CompanionAds", <<>>, <<>>),
               Element("NonLinearAds", <<>>, Unknown(<<>>)),
               PlainLinear \o Element("CompanionAds", <<>>, <<>>),
               Element("NonLinearAds", <<>>, <<>>) \o PlainLinear,
               Element("CompanionAds", <<>>,
                       Element("CompanionAds", <<>>, <<>>) \o PlainLinear),
               PlainLinear \o PlainLinear}
              \cup LinearElements \cup Hidden(PlainLinear)}
        \cup {Element("Creative", <<<<"id", "c1">>, <<"sequence", v>>>>, PlainLinear) :
                 v \in NumericValues}

PlainCreative == Element("Creative", <<>>, PlainLinear)

CreativesElements ==
    {Element("Creatives", <<>>, b) :
        b \in {<<>>, Element("Creative", <<>>, <<>>) \o PlainCreative}
              \cup CreativeElements \cup Hidden(PlainCreative)}

ImpressionElements == TextElements("Impression", <<<<"id", "i1">>>>)

PlainImpression == Element("Impression", <<>>, <<CDataSection(<<"a">>)>>)

PlainTitle == Element("AdTitle", <<>>, <<Characters(<<"a">>)>>)

ExtensionsElements ==
    {Element("Extensions", <<>>, b) :
        b \in TextElements("Extension", <<<<"type", "t">>>>)
              \cup Hidden(Element("Extension", <<>>, <<Characters(<<"a">>)>>))}

InLineElements ==
    {Element("InLine", <<>>, b) :
        b \in {<<>>, PlainTitle \o PlainImpression \o PlainImpression,
               Element("AdSystem", <<<<"version", "1">>>>, <<Characters(<<"a">>)>>)
                   \o PlainTitle,
               Element("Error", <<>>, <<CDataSection(<<"a">>)>>)}
              \cup TextElements("AdTitle", <<>>)
              \cup {PlainTitle \o i : i \in ImpressionElements}
              \cup {t \o PlainImpression : t \in TextElements("AdTitle", <<>>)}
              \cup {PlainTitle \o c : c \in CreativesElements}
              \cup ExtensionsElements
              \cup Hidden(PlainImpression) \cup Hidden(PlainTitle)
              \cup Hidden(Element("Creatives", <<>>, PlainCreative))}

PlainInLine == Element("InLine", <<>>, PlainTitle \o PlainImpression)

PlainWrapper ==
    Element("Wrapper", <<>>,
            Element("VASTAdTagURI", <<>>, <<CDataSection(<<"a">>)>>) \o PlainImpression)

WrapperElements ==
    {Element("Wrapper", <<>>, b) :
        b \in {<<>>}
              \cup TextElements("VASTAdTagURI", <<>>)
              \cup Hidden(PlainImpression)
              \cup CreativesElements}
        \cup {PlainWrapper}

AdElements ==
    {Element("Ad", <<<<"id", "ad1">>>>, b) :
        b \in {<<>>, Unknown(<<>>), UnknownNested(<<>>), <<EmptyTag("InLine", <<>>)>>,
               PlainInLine \o PlainWrapper, PlainWrapper \o PlainInLine,
               PlainInLine \o PlainInLine}
              \cup InLineElements \cup WrapperElements
              \cup Hidden(PlainInLine) \cup Hidden(PlainWrapper)}
        \cup {Element("Ad", <<<<"id", "a&amp;b">>, <<"sequence", v>>, <<"other", "o">>>>,
                      PlainInLine) : v \in NumericValues}
        \cup {Element("Ad", <<>>, PlainInLine)}

PlainAd == Element("Ad", <<<<"id", "ad1">>>>, PlainInLine)

\* the well-formed documents
Documents ==
    {<<Declaration>> \o Element("VAST", <<<<"version", "2.0">>>>, b) :
        b \in {<<>>, PlainAd \o PlainAd, <<EmptyTag("Ad", <<>>)>>,
               Element("VAST", <<<<"version", "">>>>, <<>>)
                   \o Element("VAST", <<<<"version", "">>>>, PlainAd)}
              \cup AdElements \cup Hidden(PlainAd)}
        \cup {Element("VAST", <<<<"version", "">>>>, PlainAd),
              Element("VAST", <<>>, PlainAd),
              Element("VAST", <<<<"other", "o">>, <<"version", "3.0">>>>, PlainAd)}

\* the documents whose Ad, or the InLine of whose Ad, holds any balanced
\* content of at most MaxBody events over known and unknown names
NestedDocuments ==
    {Element("VAST", <<<<"version", "2.0">>>>, Element("Ad", <<>>, c)) :
        c \in UNION {{b, Element("InLine", <<>>, b)} :
                b \in Bodies({StartTag("AdTitle", <<>>), EndTag("AdTitle"),
                              StartTag("InLine", <<>>), EndTag("InLine"),
                              StartTag("Ad", <<>>), EndTag("Ad"),
                              StartTag("X", <<>>), EndTag("X"),
                              Characters(<<"a">>)})}}

\* the documents and what is left of them when the input ends early
ParseCalls ==
    UNION {{[fn |-> "parse_vast", name |-> "", evs |-> SubSeq(d, 1, n)] :
               n \in 0..Len(d)} : d \in Documents}
        \cup {[fn |-> "parse_vast", name |-> "", evs |-> d] : d \in NestedDocuments}

(***************************************************************************)
(* The parser and the serializer called on their own: one of the parser's  *)
(* functions on its input and, after a successful parse_vast, vast_to_xml  *)
(* on the Document and parse_vast on the text it wrote.                    *)
(***************************************************************************)
EventInit ==
    /\ root \in SkipCalls \cup ReadTextCalls \cup ParseCalls
    /\ content = [u \in URIs |-> None]
    /\ alt = None
    /\ callIx = 1
    /\ results = [i \in 1..8 |-> None]
    /\ blk = IdleBlk
    /\ tasks = [t \in AllTasks |-> IdleTask]

\* parser.rs:125-128 and the other callers of skip_element
CallSkipElement ==
    /\ callIx = 1 /\ root.fn = "skip_element"
    /\ results' = [results EXCEPT ![1] = Some(skip_element(root.evs, root.name, 0))]
    /\ callIx' = 2
    /\ UNCHANGED <<root, content, alt, blk, tasks>>

\* parser.rs:172 and the other callers of read_text_element
CallReadTextElement ==
    /\ callIx = 1 /\ root.fn = "read_text_element"
    /\ results' = [results EXCEPT ![1] = Some(read_text_element(root.evs, <<>>))]
    /\ callIx' = 2
    /\ UNCHANGED <<root, content, alt, blk, tasks>>

\* lib.rs:11-14, main.rs:62: parse_vast on the input and, later, on the text
\* that vast_to_xml wrote
CallParseVastEvents ==
    /\ root.fn = "parse_vast"
    /\ \/ callIx = 1
       \/ callIx = 3 /\ Unwrap(results[2]).ok
    /\ results' = [results EXCEPT ![callIx] =
                      Some(parse_vast_events(IF callIx = 1 THEN root.evs
                                             ELSE Unwrap(results[2]).val))]
    /\ callIx' = callIx + 1
    /\ UNCHANGED <<root, content, alt, blk, tasks>>

\* stitcher.rs:18: the Document is written out
CallVastToXml ==
    /\ callIx = 2 /\ root.fn = "parse_vast" /\ Unwrap(results[1]).ok
    /\ results' = [results EXCEPT ![2] = Some(vast_to_xml(Unwrap(results[1]).val))]
    /\ callIx' = 3
    /\ UNCHANGED <<root, content, alt, blk, tasks>>

EventNext ==
    \/ CallSkipElement
    \/ CallReadTextElement
    \/ CallParseVastEvents
    \/ CallVastToXml

EventSpec == EventInit /\ [][EventNext]_vars

(***************************************************************************)
(* Vocabulary of the properties of the parser and the serializer           *)
(***************************************************************************)
\* the number of events up to and including the end tag of the element whose
\* start tag has just been read: the first end tag at nesting depth 0
RECURSIVE MatchingEnd(_, _)
MatchingEnd(evs, depth) ==
    IF evs = <<>> THEN 0
    ELSE CASE Head(evs).kind = "Start" -> 1 + MatchingEnd(Tail(evs), depth + 1)
           [] Head(evs).kind = "End" ->
                 IF depth = 0 THEN 1 ELSE 1 + MatchingEnd(Tail(evs), depth - 1)
           [] OTHER -> 1 + MatchingEnd(Tail(evs), depth)

\* C21: skip_element returns at the end tag that matches the start tag it was
\* entered after, whatever elements of the same name the element holds, and
\* leaves to its caller exactly the events after that end tag
C21_SkipStopsAtMatchingEnd ==
    (root.fn = "skip_element" /\ IsSome(results[1])) =>
        /\ Unwrap(results[1]).ok
        /\ Unwrap(results[1]).rest =
               SubSeq(root.evs, MatchingEnd(root.evs, 0) + 1, Len(root.evs))

\* parse_vast has returned r for the input
Parsed(r) == root.fn = "parse_vast" /\ results[1] = Some(r)

\* the events are those of a well-formed text: the tags are balanced and the
\* character data holds no "&" that starts no entity
WellFormed(evs) ==
    /\ Balanced(evs)
    /\ \A i \in 1..Len(evs) :
          /\ evs[i].kind # "Bad"
          /\ evs[i].kind = "Text" => \A j \in 1..Len(evs[i].text) : evs[i].text[j] # "&"

\* the tags of evs, in order
TagEvents(evs) == SelectSeq(evs, LAMBDA e : e.kind \in {"Start", "End", "Empty"})

\* the root element is a VAST start tag with a non-empty version
VersionedRoot(evs) ==
    /\ TagEvents(evs) # <<>>
    /\ Head(TagEvents(evs)).kind = "Start" /\ Head(TagEvents(evs)).name = "VAST"
    /\ IsSome(Attribute(Head(TagEvents(evs)).attrs, "version"))
    /\ Unwrap(Attribute(Head(TagEvents(evs)).attrs, "version")) # ""

\* <name> directly inside <name> occurs in evs
NestedSameName(evs, name) ==
    \E i \in 1..(Len(evs) - 1) :
        evs[i] = StartTag(name, <<>>) /\ evs[i + 1] = StartTag(name, <<>>)

\* C22: parse_vast returns Ok on every well-formed text whose root is a VAST
\* element with a non-empty version, whatever unknown elements, nested
\* elements of one name, self-closing elements or elements inside text
\* elements the text holds
C22_WellFormedTextParses ==
    \A r \in {Err(e) : e \in {"Other", "XmlParseError", "MissingField"}} :
        Parsed(r) => ~(WellFormed(root.evs) /\ VersionedRoot(root.evs))

\* a well-formed text with an unknown element inside an unknown element of
\* the same name, and one with an element inside a text element, have parsed
C22_Witness ==
    /\ root.fn = "parse_vast" /\ IsSome(results[1]) /\ Unwrap(results[1]).ok
    /\ WellFormed(root.evs) /\ VersionedRoot(root.evs)
    /\ NestedSameName(root.evs, "X")
    /\ \E i \in 1..Len(root.evs) : root.evs[i] = StartTag("AdTitle", <<>>)

\* the last character data or CDATA section directly inside the element whose
\* start tag has just been read, "" when there is none
RECURSIVE DirectText(_, _, _)
DirectText(evs, depth, text) ==
    IF evs = <<>> THEN text
    ELSE CASE Head(evs).kind = "Start" -> DirectText(Tail(evs), depth + 1, text)
           [] Head(evs).kind = "End" ->
                 IF depth = 0 THEN text ELSE DirectText(Tail(evs), depth - 1, text)
           [] Head(evs).kind = "Text" /\ depth = 0 ->
                 DirectText(Tail(evs), depth, unescape(Head(evs).text).val)
           [] Head(evs).kind = "CData" /\ depth = 0 ->
                 DirectText(Tail(evs), depth, Head(evs).text)
           [] OTHER -> DirectText(Tail(evs), depth, text)

\* C23: read_text_element returns the last Text or CDATA event directly inside
\* the element: the last of several fragments, never their concatenation, and
\* never the text of a child element
C23_TextIsLastDirectFragment ==
    (root.fn = "read_text_element" /\ IsSome(results[1])) =>
        /\ Unwrap(results[1]).ok
        /\ Unwrap(results[1]).val = DirectText(root.evs, 0, <<>>)

\* the attribute values that are a u32 in decimal
U32Texts == {<<"7">>, <<"0", "7">>, <<"+", "7">>, U32Max}

\* the start tags named name, in order
StartTags(evs, name) == SelectSeq(evs, LAMBDA e : e.kind = "Start" /\ e.name = name)

\* the Creatives of a Document and the MediaFiles of their Linears, in order
AllCreatives(vast) ==
    Concat([i \in 1..Len(vast.ads) |->
        (IF IsSome(vast.ads[i].inline) THEN Unwrap(vast.ads[i].inline).creatives ELSE <<>>)
            \o (IF IsSome(vast.ads[i].wrapper) THEN Unwrap(vast.ads[i].wrapper).creatives
                ELSE <<>>)])

AllMediaFiles(vast) ==
    Concat([i \in 1..Len(AllCreatives(vast)) |->
        IF IsSome(AllCreatives(vast)[i].linear)
        THEN Unwrap(AllCreatives(vast)[i].linear).media_files ELSE <<>>])

\* the start tag carries the attribute key with a value that is no u32
NotU32(tag, key) ==
    IsSome(Attribute(tag.attrs, key)) /\ Unwrap(Attribute(tag.attrs, key)) \notin U32Texts

\* where every start tag gave one item, the item of a tag whose attribute key
\* is no u32 has no field key
AbsentWhereNotU32(tags, items, key) ==
    Len(tags) = Len(items) =>
        \A k \in 1..Len(tags) : NotU32(tags[k], key) => items[k][key] = None

\* the events without the attributes the parser does not know
WithoutUnknownAttributes(evs) ==
    [i \in 1..Len(evs) |->
        [evs[i] EXCEPT !.attrs = SelectSeq(@, LAMBDA a : a[1] # "other")]]

\* C24: a sequence attribute of an Ad or a Creative, or a bitrate, width or
\* height attribute of a MediaFile, that is no u32 leaves the field absent and
\* does not fail the parse; an attribute the parser does not know changes
\* nothing
C24_BadNumericAttributeIsAbsent ==
    (root.fn = "parse_vast" /\ IsSome(results[1])
        /\ WellFormed(root.evs) /\ VersionedRoot(root.evs)) =>
        LET r == Unwrap(results[1])
        IN  /\ r.ok
            /\ AbsentWhereNotU32(StartTags(root.evs, "Ad"), r.val.ads, "sequence")
            /\ AbsentWhereNotU32(StartTags(root.evs, "Creative"), AllCreatives(r.val),
                                 "sequence")
            /\ \A key \in {"width", "height", "bitrate"} :
                  AbsentWhereNotU32(StartTags(root.evs, "MediaFile"),
                                    AllMediaFiles(r.val), key)
            /\ r = parse_vast_events(WithoutUnknownAttributes(root.evs))

\* a Document has been parsed from a text with an Ad whose sequence is no u32
\* and which carries an unknown attribute
C24_Witness ==
    /\ root.fn = "parse_vast" /\ IsSome(results[1]) /\ Unwrap(results[1]).ok
    /\ WellFormed(root.evs) /\ VersionedRoot(root.evs)
    /\ Len(Unwrap(results[1]).val.ads) = 1
    /\ Len(StartTags(root.evs, "Ad")) = 1
    /\ NotU32(StartTags(root.evs, "Ad")[1], "sequence")
    /\ IsSome(Attribute(StartTags(root.evs, "Ad")[1].attrs, "other"))
    /\ Unwrap(results[1]).val.ads[1].sequence = None

\* what the claim compares of a Document: the version and, for every Ad, the
\* title, the impressions and the tracking events of its InLine
InlineView(vast) ==
    [version |-> vast.version,
     ads |-> [i \in 1..Len(vast.ads) |->
                IF IsSome(vast.ads[i].inline)
                THEN LET inline == Unwrap(vast.ads[i].inline)
                     IN  <<inline.ad_title, inline.impressions,
                           [c \in 1..Len(inline.creatives) |->
                               IF IsSome(inline.creatives[c].linear)
                               THEN Unwrap(inline.creatives[c].linear).tracking_events
                               ELSE <<>>]>>
                ELSE <<>>]]

\* C25: the text vast_to_xml writes for a parsed Document parses again, to a
\* Document with the same version, as many Ads and, in every InLine, the same
\* title, impressions and tracking events
C25_RenderedTextReparsesToSame ==
    (root.fn = "parse_vast" /\ IsSome(results[3])) =>
        /\ Unwrap(results[3]).ok
        /\ InlineView(Unwrap(results[3]).val) = InlineView(Unwrap(results[1]).val)

\* the place of name in names, 0 when it is not there
Rank(names, name) ==
    IF \E k \in 1..Len(names) : names[k] = name
    THEN CHOOSE k \in 1..Len(names) : names[k] = name
    ELSE 0

\* in every element named parent of the text, the start tags with a name of
\* names come in the order of names
InFixedOrder(xml, parent, names) ==
    \A s \in 1..Len(xml) :
        (xml[s].kind = "Start" /\ xml[s].name = parent) =>
            \A i, j \in (s + 1)..(s + MatchingEnd(SubSeq(xml, s + 1, Len(xml)), 0)) :
                (i < j /\ xml[i].kind = "Start" /\ xml[j].kind = "Start"
                    /\ Rank(names, xml[i].name) > 0 /\ Rank(names, xml[j].name) > 0)
                => Rank(names, xml[i].name) <= Rank(names, xml[j].name)

\* the InLine or else the Wrapper of every Ad that has one: what is written
Payloads(vast) ==
    LET written(ad) == IF IsSome(ad.inline) THEN ad.inline ELSE ad.wrapper
    IN  Concat([i \in 1..Len(vast.ads) |-> written(vast.ads[i])])

Count(seq, Test(_)) == Len(SelectSeq(seq, Test))

\* C26: vast_to_xml always returns a text: the XML declaration, the root with
\* its version, the Ads in the order of the Document with their elements in a
\* fixed order, the root's end tag, and neither an attribute nor an element
\* for an optional field that is absent
C26_RenderIsTotalAndOrdered ==
    (root.fn = "parse_vast" /\ IsSome(results[2])) =>
        LET vast == Unwrap(results[1]).val
            xml == Unwrap(results[2]).val
            tags == StartTags(xml, "Ad")
        IN  /\ Unwrap(results[2]).ok
            /\ xml[1] = Declaration
            /\ xml[2] = StartTag("VAST", <<<<"version", vast.version>>>>)
            /\ xml[Len(xml)] = EndTag("VAST")
            /\ Len(tags) = Len(vast.ads)
            /\ \A k \in 1..Len(tags) :
                  /\ Attribute(tags[k].attrs, "id") = vast.ads[k].id
                  /\ Attribute(tags[k].attrs, "sequence") = vast.ads[k].sequence
            /\ InFixedOrder(xml, "InLine", <<"AdTitle", "Impression", "Error", "Creatives">>)
            /\ InFixedOrder(xml, "Wrapper",
                            <<"VASTAdTagURI", "Impression", "Error", "Creatives">>)
            /\ InFixedOrder(xml, "Creative", <<"Linear", "CompanionAds", "NonLinearAds">>)
            /\ InFixedOrder(xml, "Linear", <<"TrackingEvents", "VideoClicks", "MediaFiles">>)
            /\ Len(StartTags(xml, "Error"))
                  = Count(Payloads(vast), LAMBDA x : IsSome(x.error))
            /\ Len(StartTags(xml, "Creatives"))
                  = Count(Payloads(vast), LAMBDA x : x.creatives # <<>>)
            /\ Len(StartTags(xml, "Impression"))
                  = Len(Concat([i \in 1..Len(Payloads(vast)) |->
                                   Payloads(vast)[i].impressions]))

\* a Document with a title, two impressions and an Ad without a sequence has
\* been written
C26_Witness ==
    /\ root.fn = "parse_vast" /\ IsSome(results[2])
    /\ \E i \in 1..Len(Unwrap(results[1]).val.ads) :
          LET ad == Unwrap(results[1]).val.ads[i]
          IN  /\ ~IsSome(ad.sequence) /\ IsSome(ad.inline)
              /\ Unwrap(ad.inline).ad_title # <<>>
              /\ Len(Unwrap(ad.inline).impressions) = 2
              /\ ~IsSome(Unwrap(ad.inline).error)

\* the input ends with an element still open
EndsPrematurely(evs) == OpenAfter(evs, <<>>) \notin {<<>>, <<"#">>}

\* C27: parse_vast fails with a structural error on every input that ends
\* with an element still open, the root included
C27_PrematureEndIsRejected ==
    (root.fn = "parse_vast" /\ IsSome(results[1])
        /\ VersionedRoot(root.evs) /\ EndsPrematurely(root.evs)) =>
        /\ ~Unwrap(results[1]).ok
        /\ Unwrap(results[1]).val \in {"Other", "XmlParseError"}

\* the events without the elements named name, their whole content included
RECURSIVE WithoutElements(_, _)
WithoutElements(evs, name) ==
    IF evs = <<>> THEN <<>>
    ELSE IF Head(evs).kind = "Start" /\ Head(evs).name = name
    THEN WithoutElements(SubSeq(evs, 2 + MatchingEnd(Tail(evs), 0), Len(evs)), name)
    ELSE <<Head(evs)>> \o WithoutElements(Tail(evs), name)

\* C28: nothing inside an element the parser does not know reaches the
\* Document: the text parses to what it parses to without those elements
C28_UnknownSubtreesAreSkipped ==
    (root.fn = "parse_vast" /\ IsSome(results[1])
        /\ WellFormed(root.evs) /\ VersionedRoot(root.evs)) =>
        Unwrap(results[1]) = parse_vast_events(WithoutElements(root.evs, "X"))

\* the number of payloads an Ad and a Creative carry
AdPayloads(ad) == Len(ad.inline) + Len(ad.wrapper)

CreativePayloads(creative) ==
    Len(creative.linear) + Len(creative.companion_ads) + Len(creative.non_linear_ads)

\* the name of the element that is open just before event i ("" for none)
RECURSIVE Enclosing(_, _, _)
Enclosing(evs, i, depth) ==
    IF i <= 1 THEN ""
    ELSE IF evs[i - 1].kind = "End" THEN Enclosing(evs, i - 1, depth + 1)
    ELSE IF evs[i - 1].kind = "Start"
    THEN IF depth = 0 THEN evs[i - 1].name ELSE Enclosing(evs, i - 1, depth - 1)
    ELSE Enclosing(evs, i - 1, depth)

\* every child element of every element called name is an unknown element
OnlyUnknownChildren(evs, name) ==
    \A i \in 1..Len(evs) :
        (evs[i].kind \in {"Start", "Empty"} /\ Enclosing(evs, i, 0) = name)
            => evs[i].name = "X"

\* C29: an Ad of a parsed Document has at most one of inline and wrapper, a
\* Creative at most one of linear, companion_ads and non_linear_ads; where
\* the Ads (the Creatives) have no child but unknown elements the text
\* parses and they have no payload
C29_AtMostOnePayload ==
    (root.fn = "parse_vast" /\ IsSome(results[1])) =>
        LET r == Unwrap(results[1])
        IN  /\ r.ok =>
                /\ \A i \in 1..Len(r.val.ads) : AdPayloads(r.val.ads[i]) <= 1
                /\ \A i \in 1..Len(AllCreatives(r.val)) :
                       CreativePayloads(AllCreatives(r.val)[i]) <= 1
            /\ (WellFormed(root.evs) /\ VersionedRoot(root.evs)) =>
                /\ OnlyUnknownChildren(root.evs, "Ad") =>
                       r.ok /\ \A i \in 1..Len(r.val.ads) : AdPayloads(r.val.ads[i]) = 0
                /\ OnlyUnknownChildren(root.evs, "Creative") =>
                       r.ok /\ \A i \in 1..Len(AllCreatives(r.val)) :
                                   CreativePayloads(AllCreatives(r.val)[i]) = 0


(***************************************************************************)
(* C30: the order of the hops and of the terminal ads.  The suspending     *)
(* resolve parses its documents in nondecreasing depth and returns the     *)
(* Inline ads document by document in that order, each document's in its   *)
(* own order.  The blocking resolve fetches depth-first and returns the     *)
(* Inline ads in the order of the root document, the ads a wrapper's target *)
(* resolves to standing where the wrapper Ad stands.                       *)
(***************************************************************************)
Nondecreasing(depths) == \A i \in 1..(Len(depths) - 1) : depths[i] <= depths[i + 1]

\* the Inline ads of the documents, document by document
InlinesByDocument(parsed) ==
    Concat([k \in 1..Len(parsed) |-> SelectSeq(parsed[k].ads, IsInlineAd)])

\* the document a wrapper at depth - 1 leads to, when it is fetched and parsed
TargetAds(uri, depth) ==
    IF depth < MAX_WRAPPER_DEPTH /\ IsSome(fetch_vast_content(uri))
           /\ parse_vast(Unwrap(fetch_vast_content(uri))).ok
    THEN parse_vast(Unwrap(fetch_vast_content(uri))).val.ads
    ELSE <<>>

\* the depth-first reading of the ads from the i-th on, of a document at depth:
\* the Inline ads in place and the URIs in the order they are first met
RECURSIVE InPlace(_, _, _, _)
InPlace(ads, i, depth, seen) ==
    IF i > Len(ads) THEN [ads |-> <<>>, seen |-> seen]
    ELSE IF IsInlineAd(ads[i])
    THEN Strict({[ads |-> <<ads[i]>> \o rest.ads, seen |-> rest.seen] :
                    rest \in {InPlace(ads, i + 1, depth, seen)}})
    ELSE IF ~IsSome(ads[i].wrapper) \/ InSeq(Unwrap(ads[i].wrapper).vast_ad_tag_uri, seen)
    THEN InPlace(ads, i + 1, depth, seen)
    ELSE Strict({Strict({[ads |-> target.ads \o rest.ads, seen |-> rest.seen] :
                            rest \in {InPlace(ads, i + 1, depth, target.seen)}}) :
                    target \in {InPlace(TargetAds(Unwrap(ads[i].wrapper).vast_ad_tag_uri,
                                                  depth + 1),
                                        1, depth + 1,
                                        Append(seen, Unwrap(ads[i].wrapper).vast_ad_tag_uri))}})

C30_TraversalOrder ==
    /\ (BlkUnwrapReturned /\ blk.parsed # <<>>) =>
           Strict({/\ Inlines(Unwrap(blk.ret)) = dfs.ads
                   /\ blk.fetched = dfs.seen :
                       dfs \in {InPlace(parse_vast(CurXml).val.ads, 1, 0, <<>>)}})
    /\ \A t \in TaskIds :
           AsyncUnwrapReturned(t) =>
               /\ Nondecreasing(tasks[t].parsed_at)
               /\ Inlines(Unwrap(tasks[t].ret)) = InlinesByDocument(tasks[t].parsed)

\* both modes returned on a root whose first Ad is a wrapper to a document
\* with an Inline ad and whose second Ad is Inline: the blocking result has
\* the target's ad first, the suspending result the root's
C30_Witness ==
    /\ Running
    /\ CurXml = root
    /\ IsSome(results[1])
    /\ AsyncUnwrapReturned(1)
    /\ tasks[1].parsed_at = <<0, 1>>
    /\ Len(Inlines(Unwrap(results[1]))) > 1
    /\ Inlines(Unwrap(results[1])) # Inlines(Unwrap(tasks[1].ret))


(***************************************************************************)
(* C31: the tracking traversal is bounded by the depth limit of resolve    *)
(***************************************************************************)
CollectPcs == {"collect_enter", "collect_loop", "collect_pop", "collect_ads",
               "collect_await", "collect_ret"}

\* the wrapper belongs to an Ad of one of the documents
WrapperAmong(wrapper, parsed) ==
    \E d \in 1..Len(parsed) : \E i \in 1..Len(parsed[d].ads) :
        parsed[d].ads[i].wrapper = Some(wrapper)

\* stitch is about to merge: every wrapper the bundle was collected from is
\* in a document resolve parsed
MergedFromResolved(s) ==
    (s.pc = "unwrap_ret" /\ s.caller = "stitch") =>
        \A h \in 1..Len(s.hops) : WrapperAmong(s.hops[h], s.parsed)

\* C31: collect_wrapper_tracking, in both modes, parses no document at depth
\* MAX_WRAPPER_DEPTH or deeper, so at most MAX_WRAPPER_DEPTH documents of a
\* chain, and stitch merges tracking only of wrappers in documents that
\* resolve parsed as well
C31_CollectBoundedByDepth ==
    /\ blk.pc \in CollectPcs =>
           /\ Len(blk.stack) <= MAX_WRAPPER_DEPTH
           /\ Len(blk.parsed) <= MAX_WRAPPER_DEPTH
    /\ (blk.stack = <<>>) => MergedFromResolved(blk)
    /\ \A t \in TaskIds :
           /\ tasks[t].pc \in CollectPcs => Len(tasks[t].parsed) <= MAX_WRAPPER_DEPTH
           /\ MergedFromResolved(tasks[t])


(***************************************************************************)
(* C32: the tracking traversal and resolve follow the same wrappers        *)
(***************************************************************************)
\* no document at depth MAX_WRAPPER_DEPTH or deeper
ShallowWorld == \A u \in URIs : u >= MAX_WRAPPER_DEPTH => ~IsSome(content[u])

HopURIs(hops) == {hops[h].vast_ad_tag_uri : h \in 1..Len(hops)}

\* the wrapper is that of an Ad of a reachable document that has InLine as well
WrapperOfInlineAd(wrapper) ==
    \E loc \in Locations : \E i \in 1..Len(TextAt(loc).ads) :
        /\ IsInlineAd(TextAt(loc).ads[i])
        /\ TextAt(loc).ads[i].wrapper = Some(wrapper)

\* stitch is about to merge: s.hops are the wrappers the collector met,
\* s.fetched the URIs resolve fetched
SameWrappersFollowed(s) ==
    (s.pc = "unwrap_ret" /\ s.caller = "stitch" /\ ShallowWorld) =>
        /\ HopURIs(s.hops) = Range(s.fetched)
        /\ \A h \in 1..Len(s.hops) : ~WrapperOfInlineAd(s.hops[h])

\* C32: on a world shallower than MAX_WRAPPER_DEPTH the collector of a stitch
\* call fetches the URIs that the resolve of the same call fetches (the URIs
\* of the wrappers it collected from are the URIs it fetched), and no
\* tracking is collected from the wrapper of an Ad that has InLine too
C32_CollectFetchesWhatResolveFetches ==
    /\ (blk.stack = <<>>) => SameWrappersFollowed(blk)
    /\ \A t \in TaskIds : SameWrappersFollowed(tasks[t])


(***************************************************************************)
(* C33: what a wrapper whose URI is already visited gives to the bundle     *)
(***************************************************************************)
\* how many items the wrapper Ads of the documents hold, each document counted
\* once per parse
ParsedCount(parsed, Part(_)) ==
    Len(Concat([d \in 1..Len(parsed) |->
            Concat([w \in 1..Len(Wrappers(parsed[d].ads)) |->
                       Part(Wrappers(parsed[d].ads)[w])])]))

\* the number of URLs of the bundle's map of tracking events
EventCount(tracking_events) ==
    Cardinality(UNION {{<<tag, i>> : i \in 1..Len(tracking_events[tag])} :
                          tag \in DOMAIN tracking_events})

BundleCountsEveryWrapper(r) ==
    Collected(r) =>
        /\ Len(Unwrap(r.ret).val.impressions)
               = ParsedCount(r.parsed, LAMBDA w : w.impressions)
        /\ Len(Unwrap(r.ret).val.error_urls) = ParsedCount(r.parsed, LAMBDA w : w.error)
        /\ EventCount(Unwrap(r.ret).val.tracking_events)
               = ParsedCount(r.parsed, LinearEvents)

\* C33: every wrapper Ad of every document the collector parsed gives its
\* impressions, its error and its Linear tracking events to the bundle once
\* per parse of the document, whether or not its URI was already visited:
\* the bundle has as many impressions (error URLs, event URLs) as the wrapper
\* Ads of the parsed documents have together
C33_VisitedGatesOnlyTheFetch ==
    /\ BundleCountsEveryWrapper(blk)
    /\ \A t \in TaskIds : BundleCountsEveryWrapper(tasks[t])

\* the collector met a wrapper whose URI it had fetched before and took its
\* impression
C33_Witness ==
    /\ Collected(blk)
    /\ Len(blk.hops) > Len(blk.fetched)
    /\ Len(blk.fetched) > 0
    /\ Len(Unwrap(blk.ret).val.impressions) = Len(blk.hops)


(***************************************************************************)
(* C34: the output of stitch is determined by the root text and the        *)
(* content source                                                          *)
(***************************************************************************)
\* run r has returned from stitch: whatever order the map of tracking events
\* hands its tags out in, the output is the one returned in slot
SameOutputInEveryRun(r, slot) ==
    (IsSome(results[slot]) /\ IsSome(r.unwrapped)) =>
        \A order \in TagOrders(r.wrapper_tracking.tracking_events) :
            results[slot] = Some(StitchReturnValue(Unwrap(r.unwrapped),
                                                   r.wrapper_tracking, order))

\* C34: two runs of stitch on the same root text and content source return
\* the same text, the order of the TrackingEvents appended for different
\* tags included
C34_StitchIsDeterministic ==
    /\ (callIx = 4 /\ blk.pc = "idle") => SameOutputInEveryRun(blk, 3)
    /\ (callIx = 5 /\ tasks[1].pc = "idle") => SameOutputInEveryRun(tasks[1], 4)


(***************************************************************************)
(* C35: what the merge step leaves alone                                   *)
(***************************************************************************)
\* the Creative is the same but for the tracking events and the video clicks
\* of its Linear
SameButLinearTracking(before, after) ==
    IF IsSome(before.linear)
    THEN /\ IsSome(after.linear)
         /\ [after EXCEPT !.linear =
                Some([Unwrap(after.linear) EXCEPT
                         !.tracking_events = Unwrap(before.linear).tracking_events,
                         !.video_clicks = Unwrap(before.linear).video_clicks])] = before
    ELSE after = before

\* the Ad is the same but for the impressions and the error of its InLine and
\* the Linear tracking of the InLine's Creatives
SameButInlineTracking(before, after) ==
    IF IsSome(before.inline)
    THEN /\ IsSome(after.inline)
         /\ [after EXCEPT !.inline =
                Some([Unwrap(after.inline) EXCEPT
                         !.impressions = Unwrap(before.inline).impressions,
                         !.error = Unwrap(before.inline).error,
                         !.creatives = Unwrap(before.inline).creatives])] = before
         /\ Len(Unwrap(after.inline).creatives) = Len(Unwrap(before.inline).creatives)
         /\ \A c \in 1..Len(Unwrap(before.inline).creatives) :
                SameButLinearTracking(Unwrap(before.inline).creatives[c],
                                      Unwrap(after.inline).creatives[c])
    ELSE after = before

MergeFrame(r) ==
    Stitched(r) =>
        /\ [Unwrap(r.stitched).val EXCEPT !.ads = AdsBefore(r)] = Unwrap(r.unwrapped).val
        /\ Len(AdsAfter(r)) = Len(AdsBefore(r))
        /\ \A i \in 1..Len(AdsBefore(r)) :
               SameButInlineTracking(AdsBefore(r)[i], AdsAfter(r)[i])
        /\ r.wrapper_tracking = EmptyTracking => r.stitched = r.unwrapped

\* C35: stitch_vast_from_unwrapped changes only the impressions and the error
\* of the InLines and the tracking events and video clicks of their Linears:
\* version, top-level error, number and order of the Ads, every Ad without
\* InLine, every Creative without Linear and every other field stay as they
\* were, and with an empty bundle the Document is unchanged
C35_MergeChangesOnlyInlineTracking ==
    /\ MergeFrame(blk)
    /\ \A t \in TaskIds : MergeFrame(tasks[t])

\* a merge with a bundle that is not empty, into a Document with an Ad that
\* has no InLine next to one that has
C35_Witness ==
    /\ Stitched(blk)
    /\ blk.wrapper_tracking # EmptyTracking
    /\ \E i, j \in 1..Len(AdsBefore(blk)) :
           /\ ~IsSome(AdsBefore(blk)[i].inline)
           /\ IsSome(AdsBefore(blk)[j].inline)
           /\ AdsAfter(blk)[j] # AdsBefore(blk)[j]


(***************************************************************************)
(* C36: the documents resolve fetches and the documents it parses          *)
(***************************************************************************)
\* the URI serves a text that parses
GoodText(u) == IsSome(content[u]) /\ parse_vast(Unwrap(content[u])).ok

DocumentAt(u) == parse_vast(Unwrap(content[u])).val

\* run r has returned from resolve (the blocking one from its outermost call)
ResolveReturned(r) == r.pc = "unwrap_ret" /\ (r = blk => r.stack = <<>>)

\* a wrapper Ad of a document that r parsed at depth MAX_WRAPPER_DEPTH - 1
\* points at u
TargetAtLastDepth(r, u) ==
    \E k \in 1..Len(r.parsed) : \E i \in 1..Len(r.parsed[k].ads) :
        /\ r.parsed_at[k] = MAX_WRAPPER_DEPTH - 1
        /\ IsWrapperAd(r.parsed[k].ads[i])
        /\ Unwrap(r.parsed[k].ads[i].wrapper).vast_ad_tag_uri = u

\* C36 as claimed: every text resolve fetched that parses was parsed, the
\* blocking resolve is never entered at depth MAX_WRAPPER_DEPTH and the
\* suspending one awaits no fetch for a document at depth MAX_WRAPPER_DEPTH - 1
C36_NoFetchAtLastDepth ==
    /\ blk.pc = "unwrap_enter" => blk.depth < MAX_WRAPPER_DEPTH
    /\ \A t \in TaskIds : tasks[t].pc = "unwrap_await"
                              => tasks[t].depth < MAX_WRAPPER_DEPTH - 1
    /\ \A r \in {blk} \cup {tasks[t] : t \in TaskIds} :
           ResolveReturned(r) =>
               \A k \in 1..Len(r.fetched) :
                   GoodText(r.fetched[k]) => InSeq(DocumentAt(r.fetched[k]), r.parsed)

\* C36 amended: every text resolve fetched that parses was parsed, except for
\* the targets of the wrappers of a document at depth MAX_WRAPPER_DEPTH - 1:
\* those wrappers are marked visited and fetched like any other, and the text
\* fetched is dropped by the depth check; nothing is fetched for a deeper
\* document
C36_FetchedBelowLimitIsParsed ==
    /\ blk.pc = "unwrap_enter" => blk.depth <= MAX_WRAPPER_DEPTH
    /\ \A t \in TaskIds : tasks[t].pc = "unwrap_await"
                              => tasks[t].depth <= MAX_WRAPPER_DEPTH - 1
    /\ \A r \in {blk} \cup {tasks[t] : t \in TaskIds} :
           ResolveReturned(r) =>
               /\ \A k \in 1..Len(r.fetched) :
                      GoodText(r.fetched[k]) =>
                          \/ InSeq(DocumentAt(r.fetched[k]), r.parsed)
                          \/ TargetAtLastDepth(r, r.fetched[k])
               /\ \A u \in URIs :
                      TargetAtLastDepth(r, u) => InSeq(u, r.fetched) /\ u \in r.visited_urls

\* both modes returned on a chain: the wrapper of the document at depth
\* MAX_WRAPPER_DEPTH - 1 was marked visited and fetched, its text parses and
\* was not parsed
C36_Witness ==
    /\ ResolveReturned(tasks[1])
    /\ blk.pc = "idle"
    /\ \E u \in URIs :
           /\ TargetAtLastDepth(tasks[1], u) /\ TargetAtLastDepth(blk, u)
           /\ GoodText(u)
           /\ ~InSeq(DocumentAt(u), tasks[1].parsed) /\ ~InSeq(DocumentAt(u), blk.parsed)
           /\ InSeq(u, blk.fetched) /\ u \in tasks[1].visited_urls
====
